---------------------------- MODULE Spec2Model ----------------------------
(***************************************************************************)
(* State-machine model of the Agentforce chat orchestrator (the            *)
(* AgentforceChat Lightning web component), of the inline container        *)
(* region that registers itself in window.__agentforceChatInlineContainer  *)
(* and of the parts of the embedded-messaging widget the orchestrator      *)
(* reads and drives (bootstrap object, #embedded-messaging element, its    *)
(* iframe, its window events, its storage keys).                           *)
(*                                                                         *)
(* Execution is single threaded: every action below is one JavaScript task *)
(* (a lifecycle callback, an event handler or a timer callback) run to     *)
(* completion, with every method it calls.  Pending setTimeout callbacks   *)
(* are counted per kind in `timers`; a timer action consumes one of them.  *)
(* Methods of the component are operators from a state record to a state   *)
(* record, composed in the order the source calls them.                    *)
(***************************************************************************)
EXTENDS Naturals, FiniteSets, Sequences

VARIABLES
    comp,     \* fields of the AgentforceChat component instance
    dom,      \* the document: widget element, iframe, injected style elements
    win,      \* window globals: registration slot, bootstrap object, location
    region,   \* the inline container region instance (welcome screen state)
    timers,   \* pending setTimeout callbacks, per kind
    watchers, \* live closures created by _watchForAgentGreeting
    store,    \* keys present in sessionStorage / localStorage
    editor,   \* the property editor component: _config, recent dispatch
    hist,     \* observation only: what happened to the current pending message
    out       \* observation only: calls and signals emitted by the last task

vars == <<comp, dom, win, region, timers, watchers, store, editor, hist, out>>

----------------------------------------------------------------------------
(* Bounds of the model *)

\* at most this many pending timers of one kind are tracked
MaxTimers == 1
\* at most this many pending timers that call _sendPendingMessage are tracked
MaxSendTimers == 2
\* at most this many pending timers of _waitForBootstrap are tracked (each
\* renderedCallback before initialization can start a polling chain)
MaxPollTimers == 2
\* at most this many confirmation timers of the minimize watcher are tracked
\* (each change of the iframe from maximized to not maximized starts one)
MaxConfirmTimers == 2
\* at most this many greeting-watcher closures are tracked
MaxWatchers == 2
\* _messageCount is tracked up to this value (the code only tests it for > 0)
MaxMessageCount == 1
\* at most this many sets of activity listeners are tracked on the window
MaxListeners == 2
\* deliveries of one pending message are counted up to this value
MaxDeliveries == 2

(* Constants of the program *)

maxRetries == 15
MaxProjectionAttempts == 10
MaxNavigationChecks == 4
maxCheckAttempts == 50

NoMsg == "none"
Msgs == {"hello"}
NoElem == "none"
RegionId == "regionA"
NoObserver == "none"

ConversationEndedKey == "agentforce_conversation_ended"
WidgetKey == "embeddedMessaging_session"

----------------------------------------------------------------------------
(* The state record methods operate on *)

\* hist describes the pending message now stored: how often sendTextMessage
\* delivered it, whether launchChat was invoked for it, and whether the widget
\* has fired a non-EndUser message event since
NoHist == [deliveries |-> 0, awaiting |-> FALSE, greeted |-> FALSE]

Cur ==
    [comp |-> comp, dom |-> dom, win |-> win, region |-> region,
     timers |-> timers, watchers |-> watchers, store |-> store,
     editor |-> editor, hist |-> hist, out |-> {}]

Commit(s) ==
    /\ comp' = s.comp
    /\ dom' = s.dom
    /\ win' = s.win
    /\ region' = s.region
    /\ timers' = s.timers
    /\ watchers' = s.watchers
    /\ store' = s.store
    /\ editor' = s.editor
    /\ hist' = s.hist
    /\ out' = s.out

Emit(s, tag) == [s EXCEPT !.out = @ \cup {tag}]

\* setTimeout(callback): one more pending timer of the kind
Schedule(s, kind) == [s EXCEPT !.timers[kind] = @ + 1]

\* a timer callback starts: the timer is no longer pending
Fired(s, kind) == [s EXCEPT !.timers[kind] = @ - 1]


\* the timer kinds of one retry chain count as one kind
ChainKinds == {"existing1", "existing2", "existing3", "existing4", "existing5"}

RECURSIVE Pending(_, _)
Pending(tm, kinds) ==
    IF kinds = {} THEN 0
    ELSE LET k == CHOOSE x \in kinds : TRUE
         IN  tm[k] + Pending(tm, kinds \ {k})

WithinBounds(s) ==
    /\ \A k \in DOMAIN s.timers :
           s.timers[k] <= CASE k = "send" -> MaxSendTimers
                            [] k = "poll" -> MaxPollTimers
                            [] k = "confirm" -> MaxConfirmTimers
                            [] OTHER -> MaxTimers
    /\ Pending(s.timers, ChainKinds) <= MaxTimers
    /\ Len(s.watchers) <= MaxWatchers
    /\ s.win.activityListeners + s.win.staleListeners <= MaxListeners
    /\ s.hist.deliveries <= MaxDeliveries

----------------------------------------------------------------------------
(* The registration slot and the region's element *)

\* a key an object does not have
Undef == "undef"

\* the configuration keys of the region the model tells apart
ConfigKeys ==
    {"welcomeTitle", "autoDetectSearchQuery", "searchPagePath", "searchQueryParam"}

NoFields == [k \in ConfigKeys |-> Undef]

NoSlot == [id |-> "none", element |-> NoElem, searchConfig |-> NoFields]

\* container.element || document.getElementById(container.id)
ResolveElement(s) ==
    IF s.win.slot.element # NoElem THEN s.win.slot.element
    ELSE IF s.win.slot.id # "none" /\ s.region[s.win.slot.id].status = "rendered"
         THEN s.win.slot.id
         ELSE NoElem

\* get hasInlineContainer(): a handle is registered, its element is in the
\* document, has a size and has no hidden ancestor
hasInlineContainer(s) ==
    /\ s.win.slot.id # "none"
    /\ ResolveElement(s) # NoElem
    /\ s.region[ResolveElement(s)].status = "rendered"
    /\ ~s.region[ResolveElement(s)].hidden

\* container?.hideWelcome(): _hideWelcome of the registered instance
hideWelcome(s) ==
    IF s.win.slot.id = "none" THEN s
    ELSE [s EXCEPT !.region[s.win.slot.id].welcome = FALSE]

\* container?.reset(): _reset of the registered instance
containerReset(s) ==
    IF s.win.slot.id = "none" THEN s
    ELSE Emit([s EXCEPT !.region[s.win.slot.id].welcome = TRUE], "reset")

\* container.showLoading is not part of any handle this repository registers,
\* so _handleChatStart always takes the hideWelcome fallback
showLoadingOrHideWelcome(s) == hideWelcome(s)

----------------------------------------------------------------------------
(* Widget DOM helpers *)

iframeExists(s) == s.dom.iframe # "none"

\* iframe?.classList.contains('isMaximized')
isConversationMaximized(s) == s.dom.em /\ s.dom.iframe = "max"

hideFabButton(s) == [s EXCEPT !.dom.hideFabStyles = TRUE]

injectInitialHidingStyles(s) == [s EXCEPT !.dom.initialHidingStyles = TRUE]

injectProjectionStyles(s) == [s EXCEPT !.dom.projectionStyles = TRUE]

\* embeddedMessaging.classList.remove('projected-inline', 'show-chat')
removeProjectionClasses(s) ==
    IF s.dom.em THEN [s EXCEPT !.dom.projected = FALSE] ELSE s

\* (a reset of the projection state that leaves _projectionComplete as it is)
resetProjectionStateKeepsFlag(s) ==
    [s EXCEPT !.comp.containerElement = NoElem,
              !.comp.projectionAttempts = 0]

resetProjectionState(s) ==
    [s EXCEPT !.comp.containerElement = NoElem,
              !.comp.projectionComplete = FALSE,
              !.comp.projectionAttempts = 0]

\* what a projection leaves in the document and in the component
ArtifactsOf(s) ==
    \/ s.dom.hideFabStyles \/ s.dom.initialHidingStyles \/ s.dom.projectionStyles
    \/ s.dom.projected \/ s.dom.posVars # NoElem
    \/ s.comp.containerElement # NoElem

\* a whole projection is in place
ProjectionOf(s) ==
    /\ s.dom.hideFabStyles /\ s.dom.projectionStyles
    /\ s.dom.projected /\ s.dom.posVars # NoElem

\* _cleanupInlineStyles that leaves the inline positioning variables in place
cleanupInlineStylesKeepsPosition(s) ==
    LET s1 == [s EXCEPT !.dom.hideFabStyles = FALSE,
                        !.dom.initialHidingStyles = FALSE,
                        !.dom.projectionStyles = FALSE]
        s2 == IF s1.dom.em THEN [s1 EXCEPT !.dom.projected = FALSE] ELSE s1
        s3 == IF ProjectionOf(s) THEN Emit(s2, "removedProjection") ELSE s2
    IN  Emit(resetProjectionState(s3), "cleanup")

cleanupInlineStyles(s) ==
    LET s1 == [s EXCEPT !.dom.hideFabStyles = FALSE,
                        !.dom.initialHidingStyles = FALSE,
                        !.dom.projectionStyles = FALSE]
        s2 == IF s1.dom.em
              THEN [s1 EXCEPT !.dom.projected = FALSE, !.dom.posVars = NoElem]
              ELSE s1
        s3 == IF ProjectionOf(s) THEN Emit(s2, "removedProjection") ELSE s2
    IN  Emit(resetProjectionState(s3), "cleanup")

updateFabVisibility(s, hasContainer) ==
    IF hasContainer
    THEN injectInitialHidingStyles(hideFabButton(s))
    ELSE cleanupInlineStyles(s)

\* dom.posVars names the element whose bounding rectangle the four
\* --container-* variables were computed from
updateChatPosition(s) ==
    IF s.comp.containerElement = NoElem \/ ~s.dom.em THEN s
    ELSE Emit([s EXCEPT !.dom.posVars = s.comp.containerElement], "positioned")

\* the previous observer is disconnected, the new one starts with
\* wasMaximized = true whatever the iframe's class is
watchForMinimize(s) ==
    [s EXCEPT !.comp.minimizeObserver = "wasMaximized"]

\* _projectionAttempts++ ; the counter is only ever compared with 10, so
\* values from 10 upwards are kept as 10
projectRetry(s) ==
    LET s1 == [s EXCEPT !.comp.projectionAttempts =
                            IF @ < MaxProjectionAttempts THEN @ + 1 ELSE @]
    IN  IF s1.comp.projectionAttempts < MaxProjectionAttempts
        THEN Schedule(s1, "project")
        ELSE s1

\* _projectChatToContainer without its _projectionComplete guard
projectChatToContainerUnguarded(s) ==
    IF s.comp.inFabModeOverride THEN s
    ELSE IF s.win.slot.id = "none" \/ s.win.slot.element = NoElem
         THEN projectRetry(s)
    ELSE IF ~s.dom.em THEN projectRetry(s)
    ELSE LET s1 == [s EXCEPT !.dom.projected = TRUE,
                             !.comp.containerElement = s.win.slot.element]
             s2 == watchForMinimize(injectProjectionStyles(s1))
             s3 == hideFabButton(updateChatPosition(s2))
         IN  Emit([s3 EXCEPT !.comp.projectionComplete = TRUE], "projected")

projectChatToContainer(s) ==
    IF s.comp.projectionComplete THEN s
    ELSE IF s.comp.inFabModeOverride THEN s
    ELSE IF s.win.slot.id = "none" \/ s.win.slot.element = NoElem
         THEN projectRetry(s)
    ELSE IF ~s.dom.em THEN projectRetry(s)
    ELSE LET s1 == [s EXCEPT !.dom.projected = TRUE,
                             !.comp.containerElement = s.win.slot.element]
             s2 == watchForMinimize(injectProjectionStyles(s1))
             s3 == hideFabButton(updateChatPosition(s2))
         IN  Emit([s3 EXCEPT !.comp.projectionComplete = TRUE], "projected")

----------------------------------------------------------------------------
(* Storage *)

\* the keys of the two storages this model knows, each cut into tokens so that
\* every occurrence of a part the code searches for is a token of its own
\* (String.prototype.includes is case-sensitive)
KeyTokens(key) ==
    CASE key = ConversationEndedKey -> <<"agentforce_", "conversation", "_ended">>
      [] key = WidgetKey -> <<"embedded", "Messaging", "_session">>
      [] key = "agentforce_embedded_state" -> <<"agentforce_", "embedded", "_state">>
      [] key = "agentforce_MIAW_cache" -> <<"agentforce_", "MIAW", "_cache">>
      [] key = "agentforce-embedded" -> <<"agentforce", "-", "embedded">>
      [] key = "MIAW_token" -> <<"MIAW", "_token">>
      [] key = "miaw_token" -> <<"miaw", "_token">>
      [] key = "messaging_prefs" -> <<"messaging", "_prefs">>
      [] key = "conversation_id" -> <<"conversation", "_id">>
      [] key = "theme" -> <<"theme">>
      [] OTHER -> <<>>

StorageKeys ==
    {ConversationEndedKey, WidgetKey, "agentforce_embedded_state",
     "agentforce_MIAW_cache", "agentforce-embedded", "MIAW_token", "miaw_token",
     "messaging_prefs", "conversation_id", "theme"}

\* key.includes(part)
KeyIncludes(key, part) ==
    \E i \in 1..Len(KeyTokens(key)) : KeyTokens(key)[i] = part

PreInitParts == {"embedded", "messaging", "conversation", "MIAW"}

conversationEnded(s) == ConversationEndedKey \in s.store

setConversationEnded(s, value) ==
    IF value THEN [s EXCEPT !.store = @ \cup {ConversationEndedKey}]
    ELSE [s EXCEPT !.store = @ \ {ConversationEndedKey}]

\* _clearEmbeddedServiceStoragePreInit whose pattern list lacks the widget's
\* own key prefixes
clearEmbeddedServiceStorageMiawOnly(s) ==
    LET keysToRemove == {k \in s.store : KeyIncludes(k, "MIAW")}
    IN  [s EXCEPT !.store = @ \ {k \in keysToRemove : ~KeyIncludes(k, "agentforce_")}]

\* (a pre-init clearing that does not spare the component's own keys)
clearEmbeddedServiceStoragePreInitAllKeys(s) ==
    LET keysToRemove == {k \in s.store : \E p \in PreInitParts : KeyIncludes(k, p)}
    IN  [s EXCEPT !.store = @ \ keysToRemove]

clearEmbeddedServiceStoragePreInit(s) ==
    LET keysToRemove == {k \in s.store : \E p \in PreInitParts : KeyIncludes(k, p)}
    IN  [s EXCEPT !.store = @ \ {k \in keysToRemove : ~KeyIncludes(k, "agentforce_")}]

----------------------------------------------------------------------------
(* Activity tracking *)

\* publish(messageContext, channel, {sessionId, eventType, ...}): a subscriber
\* of the channel sees the event type, a second event of the type in the same
\* task, and an event whose session id had to be generated for it
publishActivityEvent(s, eventType) ==
    LET s1 == IF s.comp.sessionId THEN s ELSE Emit(s, "lazyId:" \o eventType)
        s2 == Emit(s1, IF eventType \in s1.out
                       THEN "again:" \o eventType ELSE eventType)
    IN  [(IF s.win.channelSubscriber THEN s2 ELSE s) EXCEPT !.comp.sessionId = TRUE]

\* every call registers a fresh set of wrapped handlers on the window;
\* _embeddedEventHandlers remembers the last set only
setupActivityEventListeners(s) ==
    [s EXCEPT !.comp.sessionId = TRUE,
              !.comp.embeddedEventHandlers = TRUE,
              !.win.activityListeners = @ + 1]

\* removes the handlers _embeddedEventHandlers remembers
cleanupActivityEventListeners(s) ==
    [s EXCEPT !.win.activityListeners =
                  IF s.comp.embeddedEventHandlers THEN @ - 1 ELSE @,
              !.comp.embeddedEventHandlers = FALSE]

setupConversationStartListener(s) ==
    [s EXCEPT !.comp.conversationStartHandler = TRUE]

setupMessagingReadyListener(s) ==
    [s EXCEPT !.comp.messagingReadyHandler = TRUE]

----------------------------------------------------------------------------
(* Widget API calls.  An outcome is "ok" or "throw". *)

\* utilAPI?.launchChat
canLaunch(s) == s.win.bootstrap /\ s.win.utilAPI

\* utilAPI?.sendTextMessage
canSend(s) == s.win.bootstrap /\ s.win.utilAPI

\* bootstrap.init(orgId, deploymentDeveloperName, siteUrl, options): the widget
\* starts loading and restores whatever conversation state its storage holds
bootstrapInit(s) ==
    LET s1 == [s EXCEPT !.win.widget = "initializing"]
        s2 == IF WidgetKey \in s.store THEN Emit(s1, "initRestored") ELSE s1
    IN  Emit(s2, "init")

hasRequiredConfig(s) ==
    /\ s.comp.orgId # ""
    /\ s.comp.deploymentDeveloperName # ""
    /\ s.comp.siteUrl # ""
    /\ s.comp.scrtUrl # ""

----------------------------------------------------------------------------
(* Configuration.  A configJson value is a record: `text` tells whether the  *)
(* string is empty (nothing to apply), malformed (JSON.parse throws) or an   *)
(* object, whose fields are a string, or Undef when the key is absent.       *)

ConfigObject(o, d, u, c) ==
    [text |-> "object", orgId |-> o, deploymentDeveloperName |-> d,
     siteUrl |-> u, scrtUrl |-> c]

FullConfig == ConfigObject("x", "x", "x", "x")

ConfigValues ==
    { [FullConfig EXCEPT !.text = "empty"],
      [FullConfig EXCEPT !.text = "malformed"],
      FullConfig,
      ConfigObject("", Undef, Undef, Undef),
      ConfigObject("x", Undef, Undef, "x") }

Assign(old, new) == IF new = Undef THEN old ELSE new

applyConfigJson(s, configJson) ==
    IF s.comp.configApplied \/ configJson.text = "empty" THEN s
    ELSE IF configJson.text = "malformed" THEN s      \* caught and logged
    ELSE [s EXCEPT !.comp.orgId = Assign(@, configJson.orgId),
                   !.comp.deploymentDeveloperName =
                       Assign(@, configJson.deploymentDeveloperName),
                   !.comp.siteUrl = Assign(@, configJson.siteUrl),
                   !.comp.scrtUrl = Assign(@, configJson.scrtUrl),
                   !.comp.configApplied = TRUE]

\* a setter that stores the value and leaves its application to later
setConfigJsonNoApply(s, val) ==
    [s EXCEPT !.comp.configApplied = FALSE,
              !.comp.configJsonUsable = val.text \notin {"empty", "malformed"}]

\* set configJson(val): configJsonUsable records whether the stored value is
\* non-empty and parses
setConfigJson(s, val) ==
    applyConfigJson(
        [s EXCEPT !.comp.configApplied = FALSE,
                  !.comp.configJsonUsable = val.text \notin {"empty", "malformed"}],
        val)

----------------------------------------------------------------------------
(* Removing the widget iframe: a confirmation timer of the minimize watcher *)
(* keeps its reference to the removed element, whose class list no longer   *)
(* changes                                                                  *)

removeIframe(s) ==
    IF ~(s.dom.em /\ iframeExists(s)) THEN s
    ELSE LET kind == IF s.dom.iframe = "max" THEN "confirmGoneMax" ELSE "confirmGoneMin"
         IN  [s EXCEPT !.dom.iframe = "none",
                       !.timers[kind] = @ + s.timers["confirm"],
                       !.timers["confirm"] = 0]

----------------------------------------------------------------------------
(* Initialization *)

\* _initializeChat was entered with the conversation-ended flag set
enteredInitialize(s) ==
    IF conversationEnded(s) THEN Emit(s, "initializeWhileEnded") ELSE s

\* (a check that only finds a maximized iframe)
existingChatMaximizedOnly(s) == s.dom.em /\ s.dom.iframe = "max"

\* existingChat && existingIframe: #embedded-messaging with an iframe in it
existingChat(s) == s.dom.em /\ iframeExists(s)

\* _initializeChat past its _bootstrapInitialized guard
initializeChatUnguarded(s, initOutcome, launchOutcome) ==
    IF ~s.win.bootstrap THEN Emit(s, "initError")
    ELSE IF existingChat(s)
    THEN \* chat already initialized: skip bootstrap.init()
         LET hasContainer == hasInlineContainer(s)
             wasMax == s.dom.iframe = "max"
             s1 == [setupMessagingReadyListener(Emit(s, "skipInit"))
                        EXCEPT !.comp.bootstrapInitialized = TRUE]
             s2 == IF hasContainer
                   THEN projectChatToContainer(hideWelcome(removeProjectionClasses(
                            resetProjectionState(hideFabButton(s1)))))
                   ELSE cleanupInlineStyles(s1)
             relaunch == hasContainer /\ ~wasMax /\ canLaunch(s)
             s3 == IF relaunch THEN Emit(s2, "launchChat") ELSE s2
         IN  IF relaunch /\ launchOutcome = "throw"
             THEN Emit(s3, "initError")        \* caught by the try block
             ELSE IF s.win.utilAPI
                  THEN setupActivityEventListeners(setupConversationStartListener(
                           [s3 EXCEPT !.comp.apiReady = TRUE]))
                  ELSE s3
    ELSE LET hasContainer == hasInlineContainer(s)
             s1 == IF conversationEnded(s)
                   THEN setConversationEnded(clearEmbeddedServiceStoragePreInit(s), FALSE)
                   ELSE s
             s2 == IF hasContainer THEN injectInitialHidingStyles(s1) ELSE s1
             s3 == setupMessagingReadyListener(s2)
         IN  IF initOutcome = "throw"
             THEN Emit(Emit(s3, "initThrew"), "initError")
             ELSE [bootstrapInit(s3) EXCEPT !.comp.bootstrapInitialized = TRUE]

initializeChat(s0, initOutcome, launchOutcome) ==
    LET s == enteredInitialize(s0)
    IN  IF s.comp.bootstrapInitialized THEN s
        ELSE initializeChatUnguarded(s, initOutcome, launchOutcome)

attemptReInit(s) ==
    LET s1 == [setConversationEnded(s, TRUE)
                   EXCEPT !.comp.bootstrapInitialized = FALSE,
                          !.comp.apiReady = FALSE]
    IN  Schedule(clearEmbeddedServiceStoragePreInit(removeIframe(s1)), "reinit")

clearEmbeddedServiceForNewConversation(s) ==
    LET iframeRemoved == s.dom.em /\ iframeExists(s)
        s1 == removeIframe(s)
        keysToRemove == {k \in s1.store :
                            \E p \in PreInitParts \ {"MIAW"} : KeyIncludes(k, p)}
        s2 == [s1 EXCEPT !.store =
                   @ \ {k \in keysToRemove : ~KeyIncludes(k, "agentforce_")}]
    IN  IF iframeRemoved
        THEN Schedule([s2 EXCEPT !.comp.bootstrapInitialized = FALSE,
                                 !.comp.apiReady = FALSE], "clearReinit")
        ELSE s2

resetForNewConversation(s) ==
    LET s1 == [setConversationEnded(s, FALSE)
                   EXCEPT !.comp.pendingMessage = NoMsg,
                          !.hist = NoHist,
                          !.comp.messageSent = FALSE,
                          !.comp.sessionId = FALSE,
                          !.comp.messageCount = 0,
                          !.comp.greetingWatcherActive = FALSE]
    IN  clearEmbeddedServiceForNewConversation(
            removeProjectionClasses(resetProjectionState(s1)))

----------------------------------------------------------------------------
(* Loading the bootstrap script.  dom.script is the script element whose src *)
(* contains bootstrap.min.js: "none", "head" (placed by the page's head      *)
(* markup, still loading), "own" (appended by _loadBootstrapScript, still    *)
(* loading), "loaded" or "failed".                                           *)

\* _checkAttempts++ ; the counter is only ever compared with 50, so values
\* from 50 upwards are kept as 50
waitForBootstrap(s, initOutcome, launchOutcome) ==
    LET s1 == Emit([s EXCEPT !.comp.checkAttempts =
                                 IF @ < maxCheckAttempts THEN @ + 1 ELSE @],
                   "bootstrapCheck")
    IN  IF s1.win.bootstrap THEN initializeChat(s1, initOutcome, launchOutcome)
        ELSE IF s1.comp.checkAttempts >= maxCheckAttempts THEN s1
        ELSE Schedule(Emit(s1, "pollScheduled"), "poll")

\* _loadBootstrapScript that does not look for a script in the document
loadBootstrapScriptUnchecked(s, initOutcome, launchOutcome) ==
    [s EXCEPT !.dom.script = "own"]

loadBootstrapScript(s, initOutcome, launchOutcome) ==
    IF s.dom.script # "none" THEN waitForBootstrap(s, initOutcome, launchOutcome)
    ELSE [s EXCEPT !.dom.script = "own"]

waitForBootstrapAndInit(s, initOutcome, launchOutcome) ==
    IF s.comp.bootstrapInitialized THEN s
    ELSE IF s.win.bootstrap THEN initializeChat(s, initOutcome, launchOutcome)
    ELSE loadBootstrapScript(s, initOutcome, launchOutcome)

----------------------------------------------------------------------------
(* Greeting watcher.  A closure of _watchForAgentGreeting is a record:      *)
(*   listening  its messageHandler is registered for onEmbeddedMessageSent  *)
(*   detected   its greetingDetected flag                                   *)
(*   ticking    its retry timer (scheduleRetry) is pending                  *)
(*   retry      its currentRetry counter                                    *)
(*   exit       how its retry loop ended, if it ended without a timeout:    *)
(*              "returned" at the success check, "threw" out of launchChat  *)
(* A closure with neither a registered handler nor a pending timer can no   *)
(* longer run and is dropped from `watchers`.                               *)

NewWatcher ==
    [listening |-> TRUE, detected |-> FALSE, ticking |-> TRUE, retry |-> 0,
     exit |-> "no"]

RECURSIVE DropDead(_)
DropDead(ws) ==
    IF ws = <<>> THEN <<>>
    ELSE IF Head(ws).listening \/ Head(ws).ticking
         THEN <<Head(ws)>> \o DropDead(Tail(ws))
         ELSE DropDead(Tail(ws))

watchForAgentGreeting(s) ==
    IF s.comp.pendingMessage = NoMsg \/ s.comp.messageSent THEN s
    ELSE IF s.comp.greetingWatcherActive THEN s
    ELSE [s EXCEPT !.comp.greetingWatcherActive = TRUE,
                   !.watchers = Append(@, NewWatcher)]

\* messageHandler of closure i; container.completeLoading is not part of any
\* handle this repository registers, so the fallback branch runs
messageHandler(s, i, sender) ==
    IF s.watchers[i].detected \/ s.comp.messageSent THEN s
    ELSE IF sender # "EndUser"
    THEN LET s1 == [s EXCEPT !.watchers[i].detected = TRUE,
                             !.watchers[i].listening = FALSE,
                             !.watchers[i].retry = 0,
                             !.comp.greetingWatcherActive = FALSE]
         IN  Schedule(projectChatToContainer(Emit(s1, "greetingDetected")), "send")
    ELSE s

\* the window calls the registered handlers in registration order
RECURSIVE DeliverToWatchers(_, _, _)
DeliverToWatchers(s, i, sender) ==
    IF i > Len(s.watchers) THEN s
    ELSE DeliverToWatchers(
             IF s.watchers[i].listening THEN messageHandler(s, i, sender) ELSE s,
             i + 1, sender)

\* _sendPendingMessage without its _messageSent guard
sendPendingMessageUnguarded(s, sendOutcome) ==
    IF s.comp.pendingMessage = NoMsg THEN Emit(s, "sendSkipped")
    ELSE IF canSend(s)
    THEN IF sendOutcome = "ok"
         THEN Emit([s EXCEPT !.comp.messageSent = TRUE,
                             !.hist.deliveries = @ + 1], "sendPending")
         ELSE Schedule(Emit(s, "sendThrew"), "send")
    ELSE Schedule(s, "send")

sendPendingMessage(s, sendOutcome) ==
    IF s.comp.pendingMessage = NoMsg \/ s.comp.messageSent
    THEN Emit(s, "sendSkipped")
    ELSE IF canSend(s)
    THEN IF sendOutcome = "ok"
         THEN Emit([s EXCEPT !.comp.messageSent = TRUE,
                             !.hist.deliveries = @ + 1], "sendPending")
         ELSE Schedule(Emit(s, "sendThrew"), "send")
    ELSE Schedule(s, "send")

handleAgentGreetingTimeout(s) ==
    LET s1 == [Emit(s, "warning") EXCEPT !.comp.pendingMessage = NoMsg,
                                         !.hist = NoHist,
                                         !.comp.messageSent = FALSE,
                                         !.comp.greetingWatcherActive = FALSE]
    IN  attemptReInit(containerReset(resetProjectionState(s1)))

\* the callback of scheduleRetry's timer, for closure i
retryTick(s, i, launchOutcome) ==
    LET w == s.watchers[i]
        s0 == [s EXCEPT !.watchers[i].ticking = FALSE]
    IN  IF w.detected \/ s.comp.messageSent
        THEN [s0 EXCEPT !.watchers[i].retry = 0, !.watchers[i].exit = "returned"]
        ELSE IF w.retry < maxRetries
        THEN LET s1 == [s0 EXCEPT !.watchers[i].retry = @ + 1]
             IN  IF canLaunch(s1)
                 THEN IF launchOutcome = "throw"
                      THEN Emit(Emit([s1 EXCEPT !.watchers[i].exit = "threw"],
                                     "retryLaunch"), "uncaught")
                      ELSE [Emit(s1, "retryLaunch") EXCEPT !.watchers[i].ticking = TRUE]
                 ELSE [s1 EXCEPT !.watchers[i].ticking = TRUE]
        ELSE handleAgentGreetingTimeout(
                 Emit([s0 EXCEPT !.watchers[i].listening = FALSE,
                                 !.comp.greetingWatcherActive = FALSE], "timeout"))

----------------------------------------------------------------------------
(* Chat start *)

UserEvent(m) == [message |-> m, isSearchQuery |-> FALSE, searchStartsNewChat |-> TRUE]
NoEvent == [message |-> NoMsg, isSearchQuery |-> FALSE, searchStartsNewChat |-> FALSE]

handleChatStart(s, ev, launchOutcome, sendOutcome) ==
    IF ~s.comp.apiReady THEN [s EXCEPT !.comp.queuedChatStart = ev]
    ELSE
    LET hasMaximizedChat == isConversationMaximized(s)
        s1 == IF conversationEnded(s) THEN resetForNewConversation(s) ELSE s
    IN  IF ev.isSearchQuery /\ ~ev.searchStartsNewChat /\ hasMaximizedChat
        THEN LET s2 == projectChatToContainer(hideWelcome(s1))
             IN  IF canSend(s2) /\ ev.message # NoMsg
                 THEN IF sendOutcome = "ok" THEN Emit(s2, "sendDirect")
                      ELSE Emit(s2, "sendThrew")
                 ELSE s2
        ELSE LET s2 == IF ev.message # NoMsg
                       THEN [s1 EXCEPT !.comp.pendingMessage = ev.message,
                                       !.comp.messageSent = FALSE,
                                       !.hist = NoHist]
                       ELSE s1
                 s3 == showLoadingOrHideWelcome(s2)
             IN  IF canLaunch(s3)
                 THEN IF launchOutcome = "throw"
                      THEN Emit(Emit(s3, "launchChat"), "uncaught")
                      ELSE Schedule(Emit([s3 EXCEPT !.hist.awaiting =
                                              s3.comp.pendingMessage # NoMsg],
                                         "launchChat"), "watcherStart")
                 ELSE s3

----------------------------------------------------------------------------
(* Search auto-start.  A pathname is a sequence of tokens, "/" being one of  *)
(* them; "%20" is an encoded space and "%" an incomplete escape.  A query    *)
(* string is a sequence of key / value pairs, each value a token sequence.   *)
(* Tokens are cut so that every occurrence of the search path in a pathname  *)
(* begins and ends at a token boundary: "/global-search-old" is the tokens   *)
(* "/", "global-search", "-old".                                             *)

HomeLocation == [path |-> <<"/", "home">>, search |-> <<>>]

\* String.prototype.includes, on token sequences
Includes(text, part) ==
    \E i \in 1..(Len(text) - Len(part) + 1) :
        SubSeq(text, i, i + Len(part) - 1) = part

\* text.split(sep)[1].split('/')[0]: what follows the first sep, up to the
\* next "/"
FirstPartAfter(text, sep) ==
    LET i == CHOOSE j \in 1..(Len(text) - Len(sep) + 1) :
                 /\ SubSeq(text, j, j + Len(sep) - 1) = sep
                 /\ \A h \in 1..(j - 1) : SubSeq(text, h, h + Len(sep) - 1) # sep
        rest == SubSeq(text, i + Len(sep), Len(text))
        stops == {j \in 1..Len(rest) : rest[j] = "/"}
    IN  IF stops = {} THEN rest
        ELSE SubSeq(rest, 1, (CHOOSE j \in stops : \A h \in stops : j <= h) - 1)

\* percent-decoding of a token sequence into a string; URLSearchParams also
\* turns "+" into a space and keeps an incomplete escape as it is
RECURSIVE Decoded(_, _)
Decoded(tokens, plusIsSpace) ==
    IF tokens = <<>> THEN ""
    ELSE LET c == Head(tokens)
         IN  (IF c = "%20" \/ (c = "+" /\ plusIsSpace) THEN " " ELSE c)
                 \o Decoded(Tail(tokens), plusIsSpace)

\* new URLSearchParams(window.location.search).get(name); NoMsg stands for null
searchParamsGet(search, name) ==
    LET hits == {i \in 1..Len(search) : search[i].key = name}
    IN  IF hits = {} THEN NoMsg
        ELSE Decoded(search[CHOOSE i \in hits : \A h \in hits : i <= h].value, TRUE)

\* the tokens of a configured search path
PathTokens(searchPagePath) ==
    IF searchPagePath = "/global-search" THEN <<"/", "global-search">>
    ELSE <<searchPagePath>>

\* (an extraction that looks at the path segment first)
extractSearchQueryPathFirst(location, searchPagePath, searchQueryParam) ==
    LET searchPath == PathTokens(searchPagePath)
        fromParam == searchParamsGet(location.search, searchQueryParam)
        hasPart == Includes(location.path, searchPath \o <<"/">>)
        part == FirstPartAfter(location.path, searchPath \o <<"/">>)
    IN  IF ~Includes(location.path, searchPath)
        THEN [isSearchPage |-> FALSE, query |-> NoMsg, threw |-> FALSE]
        ELSE IF hasPart
             THEN IF \E i \in 1..Len(part) : part[i] = "%"
                  THEN [isSearchPage |-> TRUE, query |-> NoMsg, threw |-> TRUE]
                  ELSE [isSearchPage |-> TRUE, query |-> Decoded(part, FALSE),
                        threw |-> FALSE]
             ELSE [isSearchPage |-> TRUE, query |-> fromParam, threw |-> FALSE]

\* the extraction both components perform: the page is a search page or not,
\* the query found (NoMsg: none), and whether decodeURIComponent threw
extractSearchQuery(location, searchPagePath, searchQueryParam) ==
    LET searchPath == PathTokens(searchPagePath)
        fromParam == searchParamsGet(location.search, searchQueryParam)
        noParam == fromParam \in {NoMsg, ""}
        hasPart == Includes(location.path, searchPath \o <<"/">>)
        part == FirstPartAfter(location.path, searchPath \o <<"/">>)
    IN  IF ~Includes(location.path, searchPath)
        THEN [isSearchPage |-> FALSE, query |-> NoMsg, threw |-> FALSE]
        ELSE IF noParam /\ hasPart
             THEN IF \E i \in 1..Len(part) : part[i] = "%"
                  THEN [isSearchPage |-> TRUE, query |-> NoMsg, threw |-> TRUE]
                  ELSE [isSearchPage |-> TRUE, query |-> Decoded(part, FALSE),
                        threw |-> FALSE]
             ELSE [isSearchPage |-> TRUE, query |-> fromParam, threw |-> FALSE]

\* _checkAndAutoStartFromSearch; no design token of this model enables the
\* auto-detection, so the registered handle's searchConfig decides
checkAndAutoStartFromSearch(s) ==
    LET searchConfig == s.win.slot.searchConfig
        pick(v, d) == IF v \in {Undef, ""} THEN d ELSE v
        x == extractSearchQuery(s.win.location,
                                pick(searchConfig["searchPagePath"], "/global-search"),
                                pick(searchConfig["searchQueryParam"], "term"))
        s1 == Emit(s, "autoDetect")
    IN  IF searchConfig["autoDetectSearchQuery"] # "true" THEN s
        ELSE IF ~x.isSearchPage THEN Emit(s1, "notSearchPage")
        ELSE IF x.threw THEN Emit(s1, "uncaught")
        ELSE IF x.query \in {NoMsg, ""} THEN Emit(s1, "noQuery")
        ELSE IF isConversationMaximized(s1) THEN Emit(s1, "query:" \o x.query)
        ELSE Schedule(Emit([s1 EXCEPT !.comp.autoStartQuery = x.query,
                                      !.comp.autoStartHandle = s.win.slot.id],
                           "query:" \o x.query), "autoStart")

\* the 500 ms timer of _checkAndAutoStartFromSearch: hideWelcome of the handle
\* read at the check, then a synthetic chatstart
autoStartFromSearch(s, launchOutcome, sendOutcome) ==
    LET h == s.comp.autoStartHandle
        s1 == IF h = "none" THEN s ELSE [s EXCEPT !.region[h].welcome = FALSE]
    IN  handleChatStart(s1, [message |-> s.comp.autoStartQuery,
                             isSearchQuery |-> TRUE,
                             searchStartsNewChat |-> TRUE],
                        launchOutcome, sendOutcome)

\* _detectSearchQuery of region instance r
detectSearchQuery(s, r) ==
    LET config == s.region[r].config
        x == extractSearchQuery(s.win.location, config["searchPagePath"],
                                config["searchQueryParam"])
        s1 == Emit(s, "regionDetect")
    IN  IF config["autoDetectSearchQuery"] # "true" THEN s
        ELSE IF ~x.isSearchPage THEN Emit(s1, "regionNotSearchPage")
        ELSE IF x.threw THEN Emit(s1, "uncaught")
        ELSE IF x.query \in {NoMsg, ""} THEN Emit(s1, "regionNoQuery")
        ELSE Schedule(Emit([s1 EXCEPT !.region[r].inputMessage = x.query],
                           "regionQuery:" \o x.query), "autoSend")

\* _autoSendSearchQuery of region instance r: the chatstart event reaches the
\* orchestrator's document listener while the region is in the document; the
\* region's searchStartsNewChat is the default, true
autoSendSearchQuery(s, r, launchOutcome, sendOutcome) ==
    LET ev == [message |-> s.region[r].inputMessage, isSearchQuery |-> TRUE,
               searchStartsNewChat |-> TRUE]
        s1 == IF s.region[r].status = "unmounted" THEN s
              ELSE handleChatStart(s, ev, launchOutcome, sendOutcome)
    IN  [s1 EXCEPT !.region[r].welcome = FALSE]

----------------------------------------------------------------------------
(* Ready handler *)

ExistingKind(attempt) ==
    CASE attempt = 1 -> "existing1" [] attempt = 2 -> "existing2"
      [] attempt = 3 -> "existing3" [] attempt = 4 -> "existing4"
      [] OTHER -> "existing5"

maxAttempts == 5

checkAndProjectExistingConversation(s, attempt) ==
    IF ~s.dom.em THEN s
    ELSE IF s.dom.iframe = "max" THEN projectChatToContainer(hideWelcome(s))
    ELSE IF attempt < maxAttempts THEN Schedule(s, ExistingKind(attempt + 1))
    ELSE s

\* (an exception of the replayed chat start ends the handler)
messagingReadyHandler(s, launchOutcome, sendOutcome) ==
    LET s1 == [s EXCEPT !.comp.apiReady = TRUE]
        s2 == IF hasInlineContainer(s1)
              THEN checkAndProjectExistingConversation(hideFabButton(s1), 0)
              ELSE s1
        s3 == setupActivityEventListeners(setupConversationStartListener(s2))
        s4 == IF s3.comp.queuedChatStart # NoEvent
              THEN handleChatStart([s3 EXCEPT !.comp.queuedChatStart = NoEvent],
                                   s3.comp.queuedChatStart, launchOutcome, sendOutcome)
              ELSE s3
    IN  IF "uncaught" \in s4.out THEN s4 ELSE checkAndAutoStartFromSearch(s4)

----------------------------------------------------------------------------
(* Navigation *)

\* timers["projectStale"] counts the projection retries that were scheduled
\* before the last navigation; the code does not tell them apart
\* (_handleNavigation without its clearTimeout)
handleNavigation0NoClear(s) ==
    LET s1 == [s EXCEPT !.comp.inFabModeOverride = FALSE,
                        !.timers["projectStale"] = @ + s.timers["project"],
                        !.timers["project"] = 0]
    IN  [resetProjectionState(s1) EXCEPT !.comp.navigationCheckCount = 0]

\* _handleNavigation up to its call of _performNavigationCheck
handleNavigation0(s) ==
    LET s1 == [s EXCEPT !.timers["navCheck"] = 0,      \* clearTimeout
                        !.comp.inFabModeOverride = FALSE,
                        !.timers["projectStale"] = @ + s.timers["project"],
                        !.timers["project"] = 0]
    IN  [resetProjectionState(s1) EXCEPT !.comp.navigationCheckCount = 0]

\* this._navigationCheckTimeout = setTimeout(...): timers["navCheck"] is the
\* timer whose id the field holds, timers["navCheckLost"] counts pending timers
\* whose id was overwritten
scheduleNavigationCheck(s) ==
    [s EXCEPT !.timers["navCheckLost"] = @ + s.timers["navCheck"],
              !.timers["navCheck"] = 1]

hasActiveConversation(s) ==
    \/ s.comp.sessionId
    \/ s.comp.messageCount > 0
    \/ (s.dom.em /\ s.dom.iframe = "max")

\* _performNavigationCheck that falls back in any pass that finds no region
performNavigationCheckEager(s, launchOutcome) ==
    LET s0 == Emit([s EXCEPT !.comp.navigationCheckCount = @ + 1], "navPass")
        hasContainer == hasInlineContainer(s0)
        hasActiveConvo == hasActiveConversation(s0)
        reproject == hasContainer /\ hasActiveConvo /\ ~s0.comp.projectionComplete
        s1 == updateFabVisibility(s0, hasContainer)
        s2 == IF reproject THEN projectChatToContainer(hideWelcome(s1)) ELSE s1
        relaunch == reproject /\ ~(s2.dom.em /\ s2.dom.iframe = "max") /\ canLaunch(s2)
        s3 == IF relaunch THEN Emit(s2, "launchChat") ELSE s2
    IN  IF relaunch /\ launchOutcome = "throw"
        THEN Emit(s3, "uncaught")
        ELSE IF s3.comp.navigationCheckCount < MaxNavigationChecks
             THEN scheduleNavigationCheck(
                      Emit(s3, IF s3.comp.navigationCheckCount = 1
                               THEN "delay300" ELSE "delay600"))
             ELSE s3

performNavigationCheck(s, launchOutcome) ==
    LET s0 == Emit([s EXCEPT !.comp.navigationCheckCount = @ + 1], "navPass")
        hasContainer == hasInlineContainer(s0)
        hasActiveConvo == hasActiveConversation(s0)
        reproject == hasContainer /\ hasActiveConvo /\ ~s0.comp.projectionComplete
        s1 == IF hasContainer THEN updateFabVisibility(s0, TRUE)
              ELSE IF s0.comp.navigationCheckCount >= MaxNavigationChecks
                   THEN updateFabVisibility(s0, FALSE)
                   ELSE s0
        s2 == IF reproject THEN projectChatToContainer(hideWelcome(s1)) ELSE s1
        relaunch == reproject /\ ~(s2.dom.em /\ s2.dom.iframe = "max") /\ canLaunch(s2)
        s3 == IF relaunch THEN Emit(s2, "launchChat") ELSE s2
    IN  IF relaunch /\ launchOutcome = "throw"
        THEN Emit(s3, "uncaught")
        ELSE IF s3.comp.navigationCheckCount < MaxNavigationChecks
             THEN scheduleNavigationCheck(
                      Emit(s3, IF s3.comp.navigationCheckCount = 1
                               THEN "delay300" ELSE "delay600"))
             ELSE s3

handleNavigation(s, launchOutcome) ==
    performNavigationCheck(handleNavigation0(s), launchOutcome)

----------------------------------------------------------------------------
(* Minimize detection *)

\* _endChatAndReset that clears the session before it publishes the event
endChatAndResetClearsFirst(s) ==
    LET s1 == cleanupInlineStyles([s EXCEPT !.comp.minimizeObserver = NoObserver])
        s2 == [containerReset(s1) EXCEPT !.comp.projectionComplete = FALSE,
                                         !.comp.pendingMessage = NoMsg,
                                         !.hist = NoHist,
                                         !.comp.messageSent = FALSE,
                                         !.comp.sessionId = FALSE]
        s3 == publishActivityEvent(s2, "SESSION_ENDED")
    IN  Emit([s3 EXCEPT !.comp.sessionId = FALSE, !.comp.messageCount = 0],
             "endChat")

endChatAndReset(s) ==
    LET s1 == cleanupInlineStyles([s EXCEPT !.comp.minimizeObserver = NoObserver])
        s2 == [containerReset(s1) EXCEPT !.comp.projectionComplete = FALSE,
                                         !.comp.pendingMessage = NoMsg,
                                         !.hist = NoHist,
                                         !.comp.messageSent = FALSE]
        s3 == publishActivityEvent(s2, "SESSION_ENDED")
    IN  Emit([s3 EXCEPT !.comp.sessionId = FALSE, !.comp.messageCount = 0],
             "endChat")

\* the MutationObserver callback for one class mutation of the iframe named
\* embeddedMessagingFrame; isMaximized is the class list after the mutation
minimizeObserverCallback(s, isMaximized) ==
    IF s.comp.minimizeObserver = NoObserver THEN s
    ELSE IF ~hasInlineContainer(s) \/ s.comp.inFabModeOverride THEN s
    ELSE LET wasMaximized == s.comp.minimizeObserver = "wasMaximized"
             s1 == IF wasMaximized /\ ~isMaximized THEN Schedule(s, "confirm") ELSE s
         IN  [s1 EXCEPT !.comp.minimizeObserver =
                            IF isMaximized THEN "wasMaximized" ELSE "wasMinimized"]

\* the confirmation timer; stillMaximized is what target.classList says now
confirmMinimize(s, stillMaximized) ==
    IF ~stillMaximized THEN endChatAndReset(s) ELSE s

\* disconnectedCallback: the handlers and the navigation timer the component
\* remembers are removed; its other timers stay pending
disconnectedCallback(s) ==
    LET s1 == [s EXCEPT !.comp.messagingReadyHandler = FALSE,
                        !.comp.conversationStartHandler = FALSE,
                        !.comp.connected = FALSE,
                        !.timers["navCheck"] = 0,
                        !.comp.minimizeObserver = NoObserver]
    IN  Emit([cleanupActivityEventListeners(s1)
                  EXCEPT !.comp.bootstrapInitialized = FALSE], "disconnected")

handleProjectChatRequest(s) ==
    projectChatToContainer(updateFabVisibility(
        [resetProjectionState(s) EXCEPT !.comp.inFabModeOverride = FALSE], TRUE))

----------------------------------------------------------------------------
(* Configuration of the region and of its property editor.  A resolved      *)
(* configuration maps each key to a value; Undef marks a key the object does *)
(* not have.  A configuration input is what the host hands to a setter: its *)
(* form (a string or an object), what the text is (empty / falsy, malformed *)
(* JSON, the JSON text null, or an object) and the object's fields.         *)

\* the keys the inputs of the model supply in every way (absent, empty, set)
VariedKeys == {"welcomeTitle"}

\* static DEFAULTS (booleans written as strings)
DEFAULTS ==
    [k \in ConfigKeys |->
        CASE k = "welcomeTitle" -> "How can Agentforce help?"
          [] k = "autoDetectSearchQuery" -> "false"
          [] k = "searchPagePath" -> "/global-search"
          [] OTHER -> "term"]

EmptyInput == [form |-> "string", text |-> "empty", fields |-> NoFields]

FieldSets ==
    {f \in [ConfigKeys -> {Undef, "", "custom"}] :
        \A k \in ConfigKeys \ VariedKeys : f[k] = Undef}

\* a configuration that turns search auto-detection on
SearchFields == [NoFields EXCEPT !["autoDetectSearchQuery"] = "true"]

ConfigInputs ==
    {[form |-> "string", text |-> x, fields |-> NoFields] :
        x \in {"empty", "malformed", "null"}}
    \cup {[form |-> "object", text |-> "empty", fields |-> NoFields]}
    \cup {[form |-> fm, text |-> "object", fields |-> f] :
            fm \in {"string", "object"}, f \in FieldSets \cup {SearchFields}}

\* { ...base, ...parsed }
Spread(base, parsed) ==
    [k \in ConfigKeys |-> IF parsed[k] # Undef THEN parsed[k] ELSE base[k]]

\* Object.fromEntries(Object.entries(parsed).filter(([, v]) => v !== ''))
FilterEmpty(parsed) ==
    [k \in ConfigKeys |-> IF parsed[k] = "" THEN Undef ELSE parsed[k]]

\* the editor component after construction: _config = {}
InitEditor == [config |-> NoFields, recentDispatch |-> FALSE, value |-> EmptyInput]

\* set value(val) of the property editor
\* (editor.value keeps the value the host handed over)
setValue(s0, val) ==
    LET s == Emit([s0 EXCEPT !.editor.value = val], "setValue")
    IN  IF s.editor.recentDispatch THEN Emit(s, "editorSkipped")
        ELSE IF val.text = "null"
             THEN Emit(s, "editorThrew")       \* Object.entries(null)
        ELSE LET parsed == IF val.text = "object" THEN val.fields ELSE NoFields
             IN  [s EXCEPT !.editor.config = Spread(DEFAULTS, FilterEmpty(parsed))]

\* updateProperty(propertyName, propertyValue) and dispatchValueChange
updateProperty(s, propertyName, propertyValue) ==
    [s EXCEPT !.editor.config[propertyName] = propertyValue,
              !.editor.recentDispatch = TRUE]

\* _applyConfig of region instance r
applyConfig(s, r) ==
    IF s.region[r].configApplied THEN s
    ELSE LET cj == s.region[r].configJson
             config == IF cj.text = "object" THEN Spread(DEFAULTS, cj.fields)
                       ELSE DEFAULTS
         IN  [s EXCEPT !.region[r].config = config,
                       !.region[r].configApplied = TRUE]

\* set configJson(val) of region instance r
regionSetConfigJson(s, r, val) ==
    applyConfig([s EXCEPT !.region[r].configJson = val,
                          !.region[r].configApplied = FALSE], r)

----------------------------------------------------------------------------
(* Region (agentforceChatInlineContainer) lifecycle *)

RegionIds == {RegionId}

FreshRegion ==
    [status |-> "unmounted", hidden |-> FALSE, welcome |-> TRUE,
     inputMessage |-> NoMsg, config |-> DEFAULTS, configApplied |-> FALSE, configJson |-> EmptyInput]

regionConnectedCallback(s, r) ==
    LET s1 == applyConfig([s EXCEPT !.region[r].status = "connected"], r)
        s2 == Schedule([s1 EXCEPT !.win.slot =
                                      [id |-> r, element |-> NoElem,
                                       searchConfig |-> s1.region[r].config]],
                       "regionCheck")
    IN  detectSearchQuery(s2, r)

regionRenderedCallback(s, r) ==
    LET s1 == [s EXCEPT !.region[r].status = "rendered"]
    IN  IF s1.win.slot.id # "none"
        THEN [s1 EXCEPT !.win.slot.element = r]
        ELSE s1

\* disconnectedCallback that clears the slot whoever owns it
regionDisconnectedCallbackAnyOwner(s, r) ==
    [s EXCEPT !.region[r] = FreshRegion, !.win.slot = NoSlot]

regionDisconnectedCallback(s, r) ==
    LET s1 == [s EXCEPT !.region[r] = FreshRegion]
    IN  IF s1.win.slot.id = r THEN [s1 EXCEPT !.win.slot = NoSlot] ELSE s1

\* _detectAndProjectActiveConversation of the instance that set the timer
detectAndProjectActiveConversation(s, r, hasContent) ==
    IF ~s.dom.em THEN s
    ELSE IF s.dom.iframe = "max" \/ hasContent
    THEN LET s1 == [s EXCEPT !.region[r].welcome = FALSE]
         IN  IF s1.comp.connected THEN handleProjectChatRequest(s1) ELSE s1
    ELSE s

----------------------------------------------------------------------------
(* Initial state: the component is constructed, configured and connected on *)
(* a page whose head markup has loaded the bootstrap script; sessionStorage *)
(* is empty, or holds what an ended conversation of an earlier page load    *)
(* left behind.                                                             *)

TimerKinds ==
    {"render", "watcherStart", "send", "reinit", "clearReinit", "project",
     "projectStale", "navCheck", "navCheckLost", "confirm", "confirmGoneMin",
     "confirmGoneMax", "regionCheck", "poll", "autoStart", "autoSend",
     "existing1", "existing2", "existing3", "existing4", "existing5"}

Outcomes == {"ok", "throw"}

InitComp ==
    [orgId |-> "x", deploymentDeveloperName |-> "x", siteUrl |-> "x",
     scrtUrl |-> "x", configApplied |-> TRUE, configJsonUsable |-> TRUE,
     checkAttempts |-> 0,
     bootstrapInitialized |-> FALSE, apiReady |-> FALSE,
     queuedChatStart |-> NoEvent, pendingMessage |-> NoMsg,
     autoStartQuery |-> NoMsg, autoStartHandle |-> "none",
     messageSent |-> FALSE, projectionAttempts |-> 0,
     projectionComplete |-> FALSE, containerElement |-> NoElem,
     navigationCheckCount |-> 0, lastUrl |-> "u1",
     inFabModeOverride |-> FALSE, greetingWatcherActive |-> FALSE,
     sessionId |-> FALSE, messageCount |-> 0,
     minimizeObserver |-> NoObserver, messagingReadyHandler |-> FALSE,
     conversationStartHandler |-> FALSE, embeddedEventHandlers |-> FALSE,
     connected |-> TRUE]

\* the nodes from the region's element (1) up to document.body (ChainLen)
ChainLen == 3

\* what hides a node, if anything
Styles ==
    {"shown", "displayNone", "visibilityHidden", "opacity0", "hiddenAttr",
     "sldsHide"}

\* the layout of the page around the region's element: the style of each node,
\* the node whose parent is a shadow root (0: none), and the box of the element
ShownPage ==
    [style |-> [i \in 1..ChainLen |-> "shown"], boundary |-> 0,
     width |-> 300, height |-> 300, top |-> 0]

InitDom ==
    [em |-> FALSE, iframe |-> "none", projected |-> FALSE, posVars |-> NoElem,
     hideFabStyles |-> FALSE, initialHidingStyles |-> FALSE,
     projectionStyles |-> FALSE, script |-> "loaded", page |-> ShownPage]

InitWin ==
    [slot |-> NoSlot, location |-> HomeLocation, bootstrap |-> TRUE, utilAPI |-> FALSE, widget |-> "idle",
     url |-> "u1", activityListeners |-> 0, staleListeners |-> 0,
     channelSubscriber |-> FALSE]

Init ==
    /\ comp = InitComp
    /\ dom = InitDom
    /\ win = InitWin
    /\ region = [r \in RegionIds |-> FreshRegion]
    /\ timers = [k \in TimerKinds |-> 0]
    /\ watchers = <<>>
    /\ store \in {{}, {ConversationEndedKey, WidgetKey}}
    /\ editor = InitEditor
    /\ hist = NoHist
    /\ out = {}

\* a task that ran s to completion
Step(s) ==
    LET s1 == [s EXCEPT !.watchers = DropDead(@)]
    IN  WithinBounds(s1) /\ Commit(s1)

----------------------------------------------------------------------------
(* Actions of the orchestrator *)

\* renderedCallback
Rendered ==
    /\ comp.connected
    /\ ~comp.bootstrapInitialized /\ hasRequiredConfig(Cur)
    /\ Step(Schedule(Cur, "render"))

\* the 100 ms timer of renderedCallback (bootstrap.init and launchChat are
\* called on different branches of _initializeChat: one outcome serves both)
RenderTimer ==
    /\ timers["render"] > 0
    /\ \E o \in Outcomes :
         Step(waitForBootstrapAndInit(Fired(Cur, "render"), o, o))

\* the 500 ms timer of _attemptReInit
ReInitTimer ==
    /\ timers["reinit"] > 0
    /\ \E o \in Outcomes :
         Step(initializeChat(setConversationEnded(Fired(Cur, "reinit"), FALSE), o, o))

\* the 100 ms timer of _clearEmbeddedServiceForNewConversation
ClearReinitTimer ==
    /\ timers["clearReinit"] > 0
    /\ \E o \in Outcomes :
         Step(initializeChat(Fired(Cur, "clearReinit"), o, o))

\* the user submits the welcome screen: handleSendMessage of the region
\* dispatches chatstart (handled synchronously), then hides its welcome screen
ChatStart ==
    \E r \in DOMAIN region, m \in Msgs, lo \in Outcomes :
        /\ region[r].status = "rendered" /\ ~region[r].hidden /\ region[r].welcome
        /\ LET s == IF comp.connected
                    THEN handleChatStart(Cur, UserEvent(m), lo, "ok") ELSE Cur
           IN  Step([s EXCEPT !.region[r].welcome = FALSE])

\* the 500 ms timer of _handleChatStart
WatcherStartTimer ==
    /\ timers["watcherStart"] > 0
    /\ Step(watchForAgentGreeting(Fired(Cur, "watcherStart")))

\* the 4 s timer of scheduleRetry, of closure i
RetryTimer ==
    \E i \in 1..Len(watchers), lo \in Outcomes :
        /\ watchers[i].ticking
        /\ Step(retryTick(Cur, i, lo))

\* the timers that call _sendPendingMessage
SendTimer ==
    /\ timers["send"] > 0
    /\ \E so \in Outcomes : Step(sendPendingMessage(Fired(Cur, "send"), so))

\* the 200 ms retry timer of _projectChatToContainer
ProjectTimer ==
    \E k \in {"project", "projectStale"} :
        /\ timers[k] > 0
        /\ Step(projectChatToContainer(
                    Emit(Fired(Cur, k),
                         IF k = "project" THEN "projectRetry" ELSE "staleRetry")))

\* the 300 ms retry timer of _checkAndProjectExistingConversation
ExistingTimer ==
    \E n \in 1..maxAttempts :
        /\ timers[ExistingKind(n)] > 0
        /\ Step(checkAndProjectExistingConversation(Fired(Cur, ExistingKind(n)), n))

\* the navigation re-evaluation timer
NavCheckTimer ==
    \E k \in {"navCheck", "navCheckLost"}, lo \in Outcomes :
        /\ timers[k] > 0
        /\ Step(performNavigationCheck(Fired(Cur, k), lo))

\* the 100 ms confirmation timer of the minimize watcher
ConfirmTimer ==
    \E k \in {"confirm", "confirmGoneMin", "confirmGoneMax"} :
        /\ timers[k] > 0
        /\ Step(confirmMinimize(Emit(Fired(Cur, k), "confirm"),
                    IF k = "confirm" THEN dom.iframe = "max" ELSE k = "confirmGoneMax"))

\* the 500 ms URL poll of _setupNavigationListener
UrlPoll ==
    /\ comp.connected
    /\ win.url # comp.lastUrl
    /\ \E lo \in Outcomes :
         Step(handleNavigation([Cur EXCEPT !.comp.lastUrl = win.url], lo))

----------------------------------------------------------------------------
(* Actions of the page, the user and the widget *)

OtherUrl == IF win.url = "u1" THEN "u2" ELSE "u1"

\* the SPA router changes the URL
NavigatePush ==
    /\ win.url \in {"u1", "u2"}
    /\ Step([Cur EXCEPT !.win.url = OtherUrl])

\* back / forward: the URL changes and popstate fires
NavigatePop ==
    /\ win.url \in {"u1", "u2"}
    /\ \E lo \in Outcomes :
         LET s == [Cur EXCEPT !.win.url = OtherUrl]
         IN  Step(IF comp.connected THEN handleNavigation(s, lo) ELSE s)

RegionConnect ==
    \E r \in DOMAIN region :
        /\ region[r].status = "unmounted"
        /\ Step(regionConnectedCallback(Cur, r))

RegionRender ==
    \E r \in DOMAIN region :
        /\ region[r].status = "connected"
        /\ Step(regionRenderedCallback(Cur, r))

RegionDisconnect ==
    \E r \in DOMAIN region :
        /\ region[r].status # "unmounted"
        /\ Step(regionDisconnectedCallback(Cur, r))

\* the SPA hides or shows the page the region is on
RegionToggleHidden ==
    \E r \in DOMAIN region :
        /\ region[r].status = "rendered"
        /\ Step([Cur EXCEPT !.region[r].hidden = ~@])

\* the 300 ms timer of the region's _checkForActiveConversation
RegionCheckTimer ==
    /\ timers["regionCheck"] > 0
    /\ \E r \in DOMAIN region, hasContent \in BOOLEAN :
         Step(detectAndProjectActiveConversation(Fired(Cur, "regionCheck"), r, hasContent))

\* the widget finishes loading after bootstrap.init: it creates its element
\* and iframe and fires onEmbeddedMessagingReady
WidgetReady ==
    /\ win.widget = "initializing"
    /\ \E lo \in Outcomes :
         LET s == [Cur EXCEPT !.win.widget = "ready", !.win.utilAPI = TRUE,
                              !.dom.em = TRUE,
                              !.dom.iframe = IF @ = "none" THEN "min" ELSE @]
         IN  Step(IF s.comp.messagingReadyHandler
                  THEN messagingReadyHandler(s, lo, "ok")
                  ELSE s)

WidgetLive == win.widget = "ready" /\ dom.em /\ dom.iframe # "none"

\* the widget toggles isMaximized on its iframe (launch, minimize button)
IframeToggle ==
    /\ WidgetLive
    /\ LET isMaximized == dom.iframe = "min"
           s == [Cur EXCEPT !.dom.iframe = IF isMaximized THEN "max" ELSE "min"]
       IN  Step(minimizeObserverCallback(
                    Emit(s, IF isMaximized THEN "maximized" ELSE "minimized"),
                    isMaximized))

\* the widget changes another class of its iframe: isMaximized stays as it is
IframeClassChange ==
    /\ WidgetLive
    /\ Step(minimizeObserverCallback(Emit(Cur, "classChanged"), dom.iframe = "max"))

conversationStartedActivity(s) ==
    publishActivityEvent(setConversationEnded(s, FALSE), "SESSION_STARTED")

\* the conversation-closed handler without the durable flag
conversationClosedActivityNoFlag(s) ==
    [publishActivityEvent(s, "SESSION_ENDED")
         EXCEPT !.comp.sessionId = FALSE, !.comp.messageCount = 0]

conversationClosedActivity(s) ==
    setConversationEnded(
        [publishActivityEvent(s, "SESSION_ENDED")
             EXCEPT !.comp.sessionId = FALSE, !.comp.messageCount = 0], TRUE)

messageSentActivity(s, sender) ==
    publishActivityEvent(
        [s EXCEPT !.comp.messageCount = IF @ < MaxMessageCount THEN @ + 1 ELSE @],
        IF sender = "EndUser" THEN "MESSAGE_SENT" ELSE "MESSAGE_RECEIVED")

\* the widget event reaches each registered copy of the activity handlers
RECURSIVE activityHandlers(_, _, _, _)
activityHandlers(s, n, event, sender) ==
    IF n = 0 THEN s
    ELSE activityHandlers(
             CASE event = "started" -> conversationStartedActivity(s)
               [] event = "closed" -> conversationClosedActivity(s)
               [] OTHER -> messageSentActivity(s, sender),
             n - 1, event, sender)

\* the handlers an earlier orchestrator left on the window run on that
\* instance: of their effects only the sessionStorage flag is shared
staleActivityHandlers(s, event) ==
    IF s.win.staleListeners = 0 THEN s
    ELSE CASE event = "started" -> setConversationEnded(s, FALSE)
           [] event = "closed" -> setConversationEnded(s, TRUE)
           [] OTHER -> s

\* onEmbeddedMessagingConversationStarted; the widget persists its session
ConversationStarted ==
    /\ WidgetLive
    /\ LET s == [Cur EXCEPT !.store = @ \cup {WidgetKey}]
           s1 == IF s.comp.conversationStartHandler
                 THEN watchForAgentGreeting(s) ELSE s
       IN  Step(activityHandlers(staleActivityHandlers(s1, "started"),
                                 s1.win.activityListeners, "started", "none"))

\* onEmbeddedMessagingConversationClosed
ConversationClosed ==
    /\ WidgetLive
    /\ Step(activityHandlers(staleActivityHandlers(Cur, "closed"),
                             win.activityListeners, "closed", "none"))

\* the page removes the orchestrator
Disconnected ==
    /\ comp.connected
    /\ Step(disconnectedCallback(Cur))

\* the timers whose callbacks run on the orchestrator
OrchestratorTimers == TimerKinds \ {"regionCheck", "autoSend"}

\* the page creates a new orchestrator after the removed one has run all its
\* timers: constructor and connectedCallback; the handlers the removed one
\* left on the window stay registered
Recreated ==
    /\ ~comp.connected
    /\ \A k \in OrchestratorTimers : timers[k] = 0
    /\ watchers = <<>>
    /\ Step(Emit([Cur EXCEPT !.comp = InitComp, !.hist = NoHist,
                             !.win.staleListeners = @ + win.activityListeners,
                             !.win.activityListeners = 0], "recreated"))

Senders == {"EndUser", "Chatbot"}

\* onEmbeddedMessageSent
MessageSent ==
    /\ WidgetLive
    /\ \E sender \in Senders :
         LET s == IF sender # "EndUser" /\ hist.awaiting
                  THEN [Cur EXCEPT !.hist.greeted = TRUE] ELSE Cur
             s1 == DeliverToWatchers(s, 1, sender)
         IN  Step(activityHandlers(s1, s1.win.activityListeners, "message", sender))

----------------------------------------------------------------------------
(* Specification of a chat session: boot, region mount, chat start, greeting *)
(* watcher, delivery of the pending message, greeting timeout and re-init    *)

Next ==
    \/ Rendered \/ RenderTimer \/ ReInitTimer
    \/ ChatStart \/ WatcherStartTimer \/ RetryTimer \/ SendTimer
    \/ ProjectTimer
    \/ RegionConnect \/ RegionRender \/ RegionCheckTimer
    \/ WidgetReady \/ ConversationStarted \/ MessageSent

Spec == Init /\ [][Next]_vars

\* C1: a stored pending message is delivered by sendTextMessage at most once,
\* and a call of _sendPendingMessage made while _messageSent is true does not
\* call sendTextMessage.
C1_DeliveredAtMostOnce ==
    /\ [](hist.deliveries <= 1)
    /\ [][comp.messageSent => "sendPending" \notin out']_vars

\* _sendPendingMessage ran with the message already delivered
C1_Witness ==
    /\ "sendSkipped" \in out
    /\ comp.messageSent /\ comp.pendingMessage # NoMsg
    /\ hist.deliveries = 1

\* C2: once a message event of a sender other than EndUser has occurred after
\* the chat start that stored the pending message and called launchChat, the
\* watcher issues no further launchChat retry.
C2_NoRetryAfterGreeting ==
    hist.greeted => "retryLaunch" \notin out

\* C3: a greeting watcher that is still registered keeps its retry loop until
\* the loop ends in the timeout outcome: its loop never returns at the success
\* check while its handler is registered and no greeting was detected.
C3_RetryLoopEndsInTimeout ==
    \A i \in 1..Len(watchers) :
        watchers[i].exit = "returned" => ~watchers[i].listening

\* C10: no task of the orchestrator ends with an exception of a widget-API call
\* propagating out of it.
C10_NothingEscapes ==
    "uncaught" \notin out

----------------------------------------------------------------------------
(* Specification of SPA navigation: boot, region mount / unmount / hide,     *)
(* popstate navigation, the re-evaluation passes, the projection retries     *)
(* and the existing-conversation checks; a conversation can start            *)

NextNav ==
    \/ Rendered \/ RenderTimer \/ WidgetReady
    \/ RegionConnect \/ RegionRender \/ RegionDisconnect \/ RegionToggleHidden
    \/ RegionCheckTimer \/ ProjectTimer
    \/ NavigatePop \/ NavCheckTimer
    \/ ConversationStarted

SpecNav == Init /\ [][NextNav]_vars

\* C4: a projection retry that was scheduled before the last navigation does
\* not project when it fires after it.
C4_StaleRetryIsNoOp ==
    "staleRetry" \in out => "projected" \notin out

\* every styling artifact of a projection is gone
ArtifactsRemoved == ~ArtifactsOf(Cur)

\* C5: a re-evaluation pass that is the 4th (or a later one) after a
\* navigation and finds no visible region leaves the orchestrator in floating
\* presentation: the three style elements, the projection classes, the inline
\* positioning variables and the container reference are removed.
C5_FloatingAfterFourPasses ==
    ( /\ "navPass" \in out
      /\ comp.navigationCheckCount >= MaxNavigationChecks
      /\ ~hasInlineContainer(Cur) )
        => ArtifactsRemoved /\ ~comp.projectionComplete

\* the 4th pass found no region and removed what a projection had left
C5_Witness ==
    /\ "navPass" \in out
    /\ comp.navigationCheckCount = MaxNavigationChecks
    /\ ~hasInlineContainer(Cur)
    /\ "removedProjection" \in out
    /\ ArtifactsRemoved

\* C8: a call of _projectChatToContainer made while _projectionComplete is
\* true (the call a retry timer makes) changes nothing, and a complete
\* projection has one target: the positioning variables are those of the
\* region the component holds.
C8_CompleteProjectionIsLatched ==
    /\ [][(comp.projectionComplete /\ "projectRetry" \in out')
            => /\ comp' = comp /\ dom' = dom /\ win' = win /\ region' = region
               /\ watchers' = watchers /\ store' = store
               /\ \A k \in TimerKinds : timers'[k] <= timers[k]
               /\ "projected" \notin out']_vars
    /\ [](comp.projectionComplete =>
            /\ dom.projected
            /\ comp.containerElement # NoElem
            /\ dom.posVars = comp.containerElement)

\* a retry timer fired while the projection was complete
C8_Witness ==
    /\ "projectRetry" \in out
    /\ comp.projectionComplete
    /\ "projected" \notin out

----------------------------------------------------------------------------
(* Specification of the minimize watcher: boot, region mount / unmount /     *)
(* hide, projection, the widget toggling its iframe, the confirmation timer  *)

NextMinimize ==
    \/ Rendered \/ RenderTimer \/ WidgetReady
    \/ RegionConnect \/ RegionRender \/ RegionDisconnect \/ RegionToggleHidden
    \/ RegionCheckTimer \/ ProjectTimer
    \/ IframeToggle \/ IframeClassChange \/ ConfirmTimer
    \/ ConversationStarted \/ ConversationClosed

SpecMinimize == Init /\ [][NextMinimize]_vars

\* C7: while projected inline on a visible region, every change of the iframe
\* from maximized to not maximized starts the confirmation timer (whose expiry
\* ends the chat and resets the region if the iframe is still not maximized).
C7_MinimizeIsObserved ==
    ( /\ "minimized" \in out
      /\ comp.projectionComplete
      /\ hasInlineContainer(Cur) )
        => timers["confirm"] > 0

----------------------------------------------------------------------------
(* Specification of configuration and boot: the component is constructed and *)
(* connected, configured or not; the bootstrap object exists, or its script  *)
(* is loading or absent; the page may hold the widget of an earlier          *)
(* component instance, and sessionStorage what an ended conversation left.   *)

\* the framework assigns the configJson property
SetConfigJson ==
    \E val \in ConfigValues :
        /\ WithinBounds(setConfigJson(Cur, val))
        /\ Step(setConfigJson(Cur, val))

\* the bootstrap script finishes loading: the bootstrap object exists, and
\* the onload handler of a script the component appended runs _initializeChat
ScriptLoaded ==
    /\ dom.script \in {"head", "own"}
    /\ \E o \in Outcomes :
         LET s == [Cur EXCEPT !.dom.script = "loaded", !.win.bootstrap = TRUE]
         IN  Step(IF dom.script = "own" THEN initializeChat(s, o, o) ELSE s)

\* the bootstrap script fails to load (onerror only logs)
ScriptFailed ==
    /\ dom.script \in {"head", "own"}
    /\ Step([Cur EXCEPT !.dom.script = "failed"])

\* the 100 ms timer of _waitForBootstrap
PollTimer ==
    /\ timers["poll"] > 0
    /\ \E o \in Outcomes :
         Step(waitForBootstrap(Fired(Cur, "poll"), o, o))

Unconfigured ==
    [InitComp EXCEPT !.orgId = "", !.deploymentDeveloperName = "",
                     !.siteUrl = "", !.scrtUrl = "", !.configApplied = FALSE,
                     !.configJsonUsable = FALSE]

ExistingWidget(maximized) ==
    [InitDom EXCEPT !.em = TRUE, !.iframe = IF maximized THEN "max" ELSE "min"]

InitBoot ==
    /\ comp \in {InitComp, Unconfigured}
    /\ \/ /\ dom = InitDom
          /\ win = InitWin
       \/ /\ dom \in {ExistingWidget(m) : m \in BOOLEAN}
          /\ win = [InitWin EXCEPT !.utilAPI = TRUE, !.widget = "ready"]
    /\ region = [r \in RegionIds |-> FreshRegion]
    /\ timers = [k \in TimerKinds |-> 0]
    /\ watchers = <<>>
    /\ store \in {{}, {ConversationEndedKey, WidgetKey}}
    /\ editor = InitEditor
    /\ hist = NoHist
    /\ out = {}

NextBoot ==
    \/ SetConfigJson \/ Rendered \/ RenderTimer
    \/ RegionConnect \/ RegionRender \/ RegionCheckTimer
    \/ ExistingTimer \/ ProjectTimer
    \/ WidgetReady \/ ConversationClosed

SpecBoot == InitBoot /\ [][NextBoot]_vars

\* the page still has to load the bootstrap script, or loads it late
InitPoll ==
    /\ comp \in {InitComp, Unconfigured}
    /\ \/ /\ dom \in {[InitDom EXCEPT !.script = sc] : sc \in {"none", "head"}}
          /\ win = [InitWin EXCEPT !.bootstrap = FALSE]
       \/ /\ dom = InitDom
          /\ win = InitWin
       \/ /\ dom \in {ExistingWidget(m) : m \in BOOLEAN}
          /\ win = [InitWin EXCEPT !.utilAPI = TRUE, !.widget = "ready"]
    /\ region = [r \in RegionIds |-> FreshRegion]
    /\ timers = [k \in TimerKinds |-> 0]
    /\ watchers = <<>>
    /\ store \in {{}, {ConversationEndedKey, WidgetKey}}
    /\ editor = InitEditor
    /\ hist = NoHist
    /\ out = {}

NextPoll ==
    \/ SetConfigJson \/ Rendered \/ RenderTimer
    \/ ScriptLoaded \/ ScriptFailed \/ PollTimer
    \/ RegionConnect \/ RegionRender
    \/ WidgetReady

SpecPoll == InitPoll /\ [][NextPoll]_vars

\* C6: when _initializeChat has run with the conversation-ended flag set, the
\* flag reads false after it returns.
C6_FlagClearedByInitialize ==
    "initializeWhileEnded" \in out => ~conversationEnded(Cur)

\* C6 (amended): when _initializeChat has run with the conversation-ended
\* flag set and has called bootstrap.init, the widget's storage keys were
\* removed before the call, and the flag reads false after it returns.
C6_StorageClearedBeforeInit ==
    ("initializeWhileEnded" \in out /\ "init" \in out)
        => /\ "initRestored" \notin out
           /\ WidgetKey \notin store
           /\ ~conversationEnded(Cur)

\* bootstrap.init was called by an _initializeChat entered with the flag set
C6_Witness ==
    /\ "initializeWhileEnded" \in out
    /\ "init" \in out
    /\ comp.bootstrapInitialized

\* C9: bootstrap.init is only invoked with the four identity fields non-empty.
C9_InitOnlyWhenConfigured ==
    "init" \in out => hasRequiredConfig(Cur)

----------------------------------------------------------------------------
(* Specification of two region instances on one page (the region of the page *)
(* being left and the region of the page being entered): boot, mount, render, *)
(* unmount and hide of each, their active-conversation checks and projection *)

SecondRegionId == "regionB"

InitRegions ==
    /\ comp = InitComp
    /\ dom = InitDom
    /\ win = InitWin
    /\ region = [r \in {RegionId, SecondRegionId} |-> FreshRegion]
    /\ timers = [k \in TimerKinds |-> 0]
    /\ watchers = <<>>
    /\ store = {}
    /\ editor = InitEditor
    /\ hist = NoHist
    /\ out = {}

NextRegions ==
    \/ Rendered \/ RenderTimer \/ WidgetReady
    \/ RegionConnect \/ RegionRender \/ RegionDisconnect \/ RegionToggleHidden
    \/ RegionCheckTimer \/ ExistingTimer \/ ProjectTimer

SpecRegions == InitRegions /\ [][NextRegions]_vars

\* C11: the slot holds one handle or none, and the unmount of a region
\* instance empties the slot if the slot's id is that instance's id and
\* leaves the slot as it is otherwise.
C11_OnlyOwnerClearsSlot ==
    /\ [](win.slot.id \in DOMAIN region \cup {"none"})
    /\ [][\A r \in DOMAIN region :
            (region[r].status # "unmounted" /\ region'[r].status = "unmounted")
                => IF win.slot.id = r THEN win'.slot = NoSlot
                   ELSE win'.slot = win.slot]_vars

\* instance B registered while A was mounted, A rendered (writing its element
\* into the registered handle) and then unmounted: B's handle is registered
C11_Witness ==
    /\ region[RegionId].status = "unmounted"
    /\ region[SecondRegionId].status # "unmounted"
    /\ win.slot.id = SecondRegionId
    /\ win.slot.element = RegionId

----------------------------------------------------------------------------
(* Specification of configuration resolution: the host hands configuration  *)
(* values to the property editor and to a region instance, before or after  *)
(* the instance is connected; the author edits properties in the editor     *)

\* the host assigns the editor's value property
EditorSetValue ==
    \E val \in ConfigInputs :
        /\ WithinBounds(Cur)
        /\ Step(setValue(Cur, val))

\* the author changes a property in the editor
EditorUpdateProperty ==
    \E k \in VariedKeys, v \in {"", "custom"} :
        /\ WithinBounds(Cur)
        /\ Step(updateProperty(Cur, k, v))

\* 150 ms pass after the editor's last dispatch
EditorQuiet ==
    /\ editor.recentDispatch
    /\ Step([Cur EXCEPT !.editor.recentDispatch = FALSE])

\* the host assigns the configJson property of a region instance
RegionSetConfigJson ==
    \E r \in DOMAIN region, val \in ConfigInputs :
        /\ WithinBounds(Cur)
        /\ Step(regionSetConfigJson(Cur, r, val))

NextConfig ==
    \/ EditorSetValue \/ EditorUpdateProperty \/ EditorQuiet
    \/ RegionSetConfigJson \/ RegionConnect \/ RegionRender \/ RegionDisconnect

\* the page holds no stored key
InitConfig == Init /\ store = {}

SpecConfig == InitConfig /\ [][NextConfig]_vars

\* what the contract resolves an input to: the supplied value of each key
\* that is supplied and not the empty string, the default otherwise
Expected(val) ==
    [k \in ConfigKeys |->
        IF val.text = "object" /\ val.fields[k] \notin {Undef, ""}
        THEN val.fields[k] ELSE DEFAULTS[k]]

Resolves(config, val) == \A k \in ConfigKeys : config[k] = Expected(val)[k]

\* C12: after the editor's value setter has run on an input, and whenever a
\* region instance has applied its configJson, the resolved configuration
\* holds for every key of DEFAULTS the supplied value, or the default if the
\* key is not supplied or supplied as the empty string.
C12_ResolvedConfigHasDefaults ==
    /\ "setValue" \in out => Resolves(editor.config, editor.value)
    /\ \A r \in DOMAIN region :
           region[r].configApplied => Resolves(region[r].config, region[r].configJson)

----------------------------------------------------------------------------
(* Specification of the search auto-start: the page is opened at one of the  *)
(* locations below with the region's auto-detection configured on or off;    *)
(* the orchestrator boots, the region mounts, and both evaluate the location *)
(* and raise their chat start.  The chat session a chat start opens (greeting *)
(* watcher, retries, delivery) is the subject of Spec and is not continued   *)
(* here.                                                                     *)

SearchPath == <<"/", "global-search">>

Paths ==
    {SearchPath,
     SearchPath \o <<"/", "refund", "%20", "status">>,
     <<"/", "home">>,
     <<"/", "home", "/", "refund", "%20", "status">>,
     <<"/", "s">> \o SearchPath \o <<"/", "refund", "%20", "status", "/", "page">>,
     SearchPath \o <<"/">>,
     SearchPath \o <<"-old", "/", "refund">>,
     SearchPath \o <<"/", "100", "%">>}

Param(k, v) == <<[key |-> k, value |-> v]>>

Searches ==
    {<<>>,
     Param("term", <<"refund", "%20", "policy">>),
     Param("term", <<"refund", "+", "policy">>),
     Param("term", <<>>),
     Param("q", <<"refund", "%20", "policy">>)}

InitSearch ==
    /\ comp = InitComp
    /\ dom = InitDom
    /\ \E p \in Paths, q \in Searches :
         win = [InitWin EXCEPT !.location = [path |-> p, search |-> q]]
    /\ \E f \in {NoFields, SearchFields} :
         region = [r \in RegionIds |->
                      [FreshRegion EXCEPT !.configJson =
                          [form |-> "string", text |-> "object", fields |-> f]]]
    /\ timers = [k \in TimerKinds |-> 0]
    /\ watchers = <<>>
    /\ store = {}
    /\ editor = InitEditor
    /\ hist = NoHist
    /\ out = {}

\* the 500 ms timer of _checkAndAutoStartFromSearch
AutoStartTimer ==
    /\ timers["autoStart"] > 0
    /\ \E lo \in Outcomes, so \in Outcomes :
         Step(autoStartFromSearch(Fired(Cur, "autoStart"), lo, so))

\* the 1500 ms timer of the region's _detectSearchQuery
AutoSendTimer ==
    /\ timers["autoSend"] > 0
    /\ \E r \in DOMAIN region, lo \in Outcomes, so \in Outcomes :
         /\ region[r].inputMessage # NoMsg
         /\ Step(autoSendSearchQuery(Fired(Cur, "autoSend"), r, lo, so))

NextSearch ==
    \/ Rendered \/ RenderTimer \/ WidgetReady
    \/ RegionConnect \/ RegionRender
    \/ RegionCheckTimer \/ ExistingTimer \/ ProjectTimer
    \/ AutoStartTimer \/ AutoSendTimer

SpecSearch == InitSearch /\ [][NextSearch]_vars

RefundPolicy == Param("term", <<"refund", "%20", "policy">>)
RefundStatusPath == SearchPath \o <<"/", "refund", "%20", "status">>

\* what the orchestrator's and the region's evaluation of the location found
Found(query) ==
    /\ "autoDetect" \in out =>
          /\ ("query:" \o query) \in out
          /\ comp.autoStartQuery = query \/ isConversationMaximized(Cur)
    /\ "regionDetect" \in out =>
          /\ ("regionQuery:" \o query) \in out
          /\ \E r \in DOMAIN region : region[r].inputMessage = query

\* the cases of C13 that name their location: the query parameter alone, the
\* path segment alone, both, and a path without the search path
NamedCases ==
    /\ win.location = [path |-> SearchPath, search |-> RefundPolicy]
          => Found("refund policy")
    /\ win.location = [path |-> RefundStatusPath, search |-> <<>>]
          => Found("refund status")
    /\ win.location = [path |-> RefundStatusPath, search |-> RefundPolicy]
          => Found("refund policy")
    /\ ~Includes(win.location.path, SearchPath)
          => /\ "autoDetect" \in out => "notSearchPage" \in out
             /\ "regionDetect" \in out => "regionNotSearchPage" \in out
             /\ timers["autoStart"] = 0 /\ timers["autoSend"] = 0
             /\ comp.autoStartQuery = NoMsg
             /\ comp.pendingMessage = NoMsg /\ comp.queuedChatStart = NoEvent
             /\ \A r \in DOMAIN region : region[r].inputMessage = NoMsg

\* C13 as stated: with auto-detection on, search path /global-search and
\* parameter term, ?term=refund%20policy yields "refund policy", the path
\* /global-search/refund%20status yields "refund status", a path without the
\* search path yields no query and no auto-start, and whenever the query
\* parameter and a path segment are both present the parameter is used (so
\* ?term= with nothing after it yields no query)
C13_ParameterAlwaysUsed ==
    /\ NamedCases
    /\ win.location = [path |-> RefundStatusPath, search |-> Param("term", <<>>)]
          => /\ "autoDetect" \in out => "noQuery" \in out
             /\ "regionDetect" \in out => "regionNoQuery" \in out

\* C13 amended: as above, but the query parameter is used only when its value
\* is not empty; an empty ?term= falls back to the path segment
C13_SearchQueryExtraction ==
    /\ NamedCases
    /\ win.location = [path |-> RefundStatusPath, search |-> Param("term", <<>>)]
          => Found("refund status")

\* the orchestrator has found "refund status" in the path and its auto-start
\* has handed the query to _handleChatStart
C13_Witness ==
    /\ win.location = [path |-> RefundStatusPath, search |-> <<>>]
    /\ comp.autoStartQuery = "refund status"
    /\ comp.pendingMessage = "refund status"
    /\ "launchChat" \in out /\ "uncaught" \notin out

----------------------------------------------------------------------------
(* Specification of the greeting watchers of a page with two regions.  It    *)
(* starts where the orchestrator has booted, the widget is ready and both    *)
(* regions show their welcome screen (the state SpecRegions reaches by       *)
(* Rendered, RenderTimer, WidgetReady and, for each region, RegionConnect,   *)
(* RegionRender, RegionCheckTimer), and follows chat starts, conversation    *)
(* events, watchers and delivery up to the re-initialisation that a reset or *)
(* a greeting timeout schedules.                                             *)

InitWatchers ==
    /\ comp = [InitComp EXCEPT !.apiReady = TRUE, !.bootstrapInitialized = TRUE,
                               !.sessionId = TRUE, !.embeddedEventHandlers = TRUE,
                               !.conversationStartHandler = TRUE,
                               !.messagingReadyHandler = TRUE]
    /\ dom = [InitDom EXCEPT !.em = TRUE, !.iframe = "min"]
    /\ win = [InitWin EXCEPT !.slot = [id |-> SecondRegionId,
                                       element |-> SecondRegionId,
                                       searchConfig |-> DEFAULTS],
                             !.utilAPI = TRUE, !.widget = "ready",
                             !.activityListeners = 1]
    /\ region = [r \in {RegionId, SecondRegionId} |->
                    [FreshRegion EXCEPT !.status = "rendered",
                                        !.configApplied = TRUE]]
    /\ timers = [k \in TimerKinds |-> 0]
    /\ watchers = <<>>
    /\ store = {}
    /\ editor = InitEditor
    /\ hist = NoHist
    /\ out = {}

NextWatchers ==
    \/ ChatStart \/ WatcherStartTimer \/ RetryTimer \/ SendTimer
    \/ ConversationStarted \/ ConversationClosed \/ MessageSent

SpecWatchers == InitWatchers /\ [][NextWatchers]_vars

\* C14: at most one greeting watcher has its onEmbeddedMessageSent listener
\* registered, also after _resetForNewConversation and
\* _handleAgentGreetingTimeout have run
C14_AtMostOneWatcher ==
    Cardinality({i \in 1..Len(watchers) : watchers[i].listening}) <= 1

\* C15: every retry loop ends within its budget: it re-invokes launchChat at
\* most 15 times, after its 15th tick it is no longer rescheduled, and a loop
\* that stopped without a greeting and without a sent message has reported
\* the timeout (a loop that reports the timeout also removes its listener, so
\* its closure is gone; a loop that died of an exception is still listening)
C15_RetryLoopTerminates ==
    \A i \in 1..Len(watchers) :
        /\ watchers[i].retry <= maxRetries
        /\ watchers[i].retry = maxRetries => ~watchers[i].ticking
        /\ watchers[i].exit # "threw"

----------------------------------------------------------------------------
(* Specification of URL changes: the router changes the URL with or without  *)
(* popstate, the 500 ms poll compares it with _lastUrl, and the passes of    *)
(* the navigation check run, on a page whose region mounts once              *)

NextUrl ==
    \/ Rendered \/ RenderTimer \/ WidgetReady
    \/ RegionConnect \/ RegionRender
    \/ RegionCheckTimer \/ ExistingTimer \/ ProjectTimer
    \/ NavigatePush \/ NavigatePop \/ UrlPoll \/ NavCheckTimer

SpecUrl == Init /\ [][NextUrl]_vars

\* C17: a URL change is handled by one run of _handleNavigation: once
\* _handleNavigation has run (the first pass of the navigation check, which
\* only it performs) the URL poll finds no change left to handle
C17_OneRunPerUrlChange ==
    ("navPass" \in out /\ comp.navigationCheckCount = 1)
        => comp.lastUrl = win.url

\* C18: when the projection retries are exhausted (ten attempts found the
\* region element or the widget element missing and no retry is pending) the
\* widget is presented floating: it is not hidden by the inline hiding styles
C18_ExhaustedRetriesFallBack ==
    (comp.projectionAttempts = MaxProjectionAttempts /\ timers["project"] = 0)
        => ~(dom.em /\ ~dom.projected
                /\ (dom.initialHidingStyles \/ dom.hideFabStyles))

----------------------------------------------------------------------------
(* Specification of chat starts during boot: the page is loaded fresh or     *)
(* with the widget of an earlier page still in the document, the region      *)
(* mounts, and the user may send before the orchestrator's API is ready      *)

InitQueue ==
    /\ comp = InitComp
    /\ \/ dom = InitDom /\ win = InitWin
       \/ /\ dom \in {ExistingWidget(m) : m \in BOOLEAN}
          /\ win = [InitWin EXCEPT !.utilAPI = TRUE, !.widget = "ready"]
    /\ region = [r \in RegionIds |-> FreshRegion]
    /\ timers = [k \in TimerKinds |-> 0]
    /\ watchers = <<>>
    /\ store = {}
    /\ editor = InitEditor
    /\ hist = NoHist
    /\ out = {}

NextQueue ==
    \/ Rendered \/ RenderTimer \/ WidgetReady
    \/ RegionConnect \/ RegionRender
    \/ RegionCheckTimer \/ ExistingTimer \/ ProjectTimer
    \/ ChatStart \/ WatcherStartTimer \/ RetryTimer \/ SendTimer \/ MessageSent

SpecQueue == InitQueue /\ [][NextQueue]_vars

\* C19: once the API is marked ready, by the ready event or by the
\* already-initialized path of _initializeChat, the chat start that was
\* queued before has been replayed: none is left in the queue
C19_QueuedStartReplayed ==
    comp.apiReady => comp.queuedChatStart = NoEvent

\* C20: a candidate minimize (the start of the confirmation timer) is raised
\* only by a class mutation that takes the iframe from maximized to not
\* maximized
C20_CandidateOnlyOnMinimize ==
    [][timers'["confirm"] > timers["confirm"]
          => dom.iframe = "max" /\ dom'.iframe = "min"]_vars

----------------------------------------------------------------------------
(* Specification of activity tracking: a component of the page subscribes to *)
(* the session channel; the page is loaded fresh or with the widget of an    *)
(* earlier page; boot, region mount, projection, the widget's conversation   *)
(* and message events, the widget toggling its iframe, the confirmation      *)
(* timer                                                                     *)

InitActivity ==
    /\ comp = InitComp
    /\ \/ dom = InitDom /\ win = [InitWin EXCEPT !.channelSubscriber = TRUE]
       \/ /\ dom \in {ExistingWidget(m) : m \in BOOLEAN}
          /\ win = [InitWin EXCEPT !.utilAPI = TRUE, !.widget = "ready",
                                   !.channelSubscriber = TRUE]
    /\ region = [r \in RegionIds |-> FreshRegion]
    /\ timers = [k \in TimerKinds |-> 0]
    /\ watchers = <<>>
    /\ store = {}
    /\ editor = InitEditor
    /\ hist = NoHist
    /\ out = {}

NextActivity ==
    \/ Rendered \/ RenderTimer \/ WidgetReady
    \/ RegionConnect \/ RegionRender
    \/ RegionCheckTimer \/ ExistingTimer \/ ProjectTimer
    \/ IframeToggle \/ ConfirmTimer
    \/ ConversationStarted \/ ConversationClosed \/ MessageSent

SpecActivity == InitActivity /\ [][NextActivity]_vars

----------------------------------------------------------------------------
(* Specification of the orchestrator's lifetime: boot, a chat start after an *)
(* ended conversation (which initializes the widget again), the widget's     *)
(* events, removal of the orchestrator and creation of a new one             *)

NextTeardown ==
    \/ Rendered \/ RenderTimer \/ WidgetReady
    \/ RegionConnect \/ RegionRender
    \/ ChatStart \/ ClearReinitTimer
    \/ ConversationStarted \/ ConversationClosed \/ MessageSent
    \/ Disconnected \/ Recreated

SpecTeardown == InitActivity /\ [][NextTeardown]_vars

----------------------------------------------------------------------------
(* The end of a chat by a confirmed minimize *)

\* C21 as stated: the SESSION_ENDED event of a confirmed minimize carries the
\* session id that was set when the confirmation timer fired
C21_CarriesCurrentSessionId ==
    [][("endChat" \in out' /\ "SESSION_ENDED" \in out')
           => "lazyId:SESSION_ENDED" \notin out']_vars

\* C21: after a confirmed minimize the injected styles and the projection
\* class are gone, the registered region was reset to its welcome screen, no
\* message is pending or marked sent, the projection is not complete, the
\* session id is unset and the message count 0, and exactly one SESSION_ENDED
\* event was published; it carries the session id that was set when the
\* confirmation timer fired, or a newly generated id when none was set
C21_ConfirmedMinimizeResets ==
    []["endChat" \in out' =>
           /\ ~dom'.hideFabStyles /\ ~dom'.initialHidingStyles
           /\ ~dom'.projectionStyles /\ ~dom'.projected
           /\ win.slot.id # "none" =>
                  "reset" \in out' /\ region'[win.slot.id].welcome
           /\ comp'.pendingMessage = NoMsg /\ ~comp'.messageSent
           /\ ~comp'.projectionComplete
           /\ ~comp'.sessionId /\ comp'.messageCount = 0
           /\ "SESSION_ENDED" \in out' /\ "again:SESSION_ENDED" \notin out'
           /\ comp.sessionId <=> "lazyId:SESSION_ENDED" \notin out']_vars

\* a confirmed minimize reset the region and published the event with the
\* session id of the chat it ended
C21_Witness ==
    /\ "endChat" \in out /\ "reset" \in out
    /\ "SESSION_ENDED" \in out /\ "lazyId:SESSION_ENDED" \notin out

----------------------------------------------------------------------------
(* One activity event per widget event *)

\* C22: a conversation or message event of the widget results in one
\* published activity event of its type, never in a second one
C22_OneEventPerWidgetEvent ==
    \A eventType \in {"SESSION_STARTED", "SESSION_ENDED",
                      "MESSAGE_SENT", "MESSAGE_RECEIVED"} :
        ("again:" \o eventType) \notin out

\* C23: after disconnectedCallback none of the activity handlers the
\* orchestrator registered on the window is still registered
C23_NoHandlerLeftAfterTeardown ==
    "disconnected" \in out => win.activityListeners = 0

----------------------------------------------------------------------------
(* Specification of search queries sent into a running chat.  It starts      *)
(* where the orchestrator has booted and the widget is ready (the initial    *)
(* state of SpecWatchers); the user starts chats, the widget opens and       *)
(* closes conversations and toggles its iframe, and a region sends a         *)
(* detected search query with the searchStartsNewChat of its configuration   *)

\* _autoSendSearchQuery of a region whose configuration holds startsNewChat
SearchChatStart ==
    \E r \in DOMAIN region, m \in Msgs, startsNewChat \in BOOLEAN,
       lo \in Outcomes, so \in Outcomes :
        /\ region[r].status = "rendered"
        /\ LET ev == [message |-> m, isSearchQuery |-> TRUE,
                      searchStartsNewChat |-> startsNewChat]
               s == Emit(Cur, IF startsNewChat THEN "searchNew" ELSE "searchResume")
           IN  Step([handleChatStart(s, ev, lo, so) EXCEPT !.region[r].welcome = FALSE])

NextResume ==
    \/ ChatStart \/ SearchChatStart \/ WatcherStartTimer \/ SendTimer
    \/ IframeToggle \/ ConversationStarted \/ ConversationClosed \/ MessageSent

SpecResume == InitWatchers /\ [][NextResume]_vars

\* C24: a search query with searchStartsNewChat false that reaches
\* _handleChatStart while the iframe is maximized is passed to sendTextMessage,
\* _pendingMessage and _messageSent stay as they are, launchChat is not called
\* and no greeting watcher is started
C24_ResumeLeavesPendingMessage ==
    [][("searchResume" \in out' /\ dom.em /\ dom.iframe = "max") =>
           /\ "sendDirect" \in out' \/ "sendThrew" \in out'
           /\ comp'.pendingMessage = comp.pendingMessage
           /\ comp'.messageSent = comp.messageSent
           /\ "launchChat" \notin out'
           /\ timers'["watcherStart"] = timers["watcherStart"]
           /\ watchers' = watchers]_vars

----------------------------------------------------------------------------
(* The passes of a navigation re-evaluation *)

----------------------------------------------------------------------------
(* Loading the bootstrap script and polling for the bootstrap object *)

----------------------------------------------------------------------------
(* Specification of position updates: boot on a fresh page or on one with    *)
(* the widget of an earlier page, the region mounting and unmounting,        *)
(* projection, and the window scrolling or resizing                          *)

\* a scroll or resize event of the window: every projection has added a
\* listener that calls _updateChatPosition, and none is ever removed; before
\* the first projection _containerElement is null and the call returns, as it
\* does without the widget element
WindowScroll ==
    /\ dom.em
    /\ Step(updateChatPosition(Emit(Cur, "scroll")))

NextPosition ==
    \/ Rendered \/ RenderTimer \/ WidgetReady
    \/ RegionConnect \/ RegionRender \/ RegionDisconnect
    \/ RegionCheckTimer \/ ExistingTimer \/ ProjectTimer
    \/ WindowScroll

SpecPosition == InitQueue /\ [][NextPosition]_vars

\* C27: a position update on scroll or resize writes the positioning
\* variables only while a projection is complete and the region whose element
\* it targets is registered, and then writes that element's rectangle
C27_NoWriteAfterUnregister ==
    []["scroll" \in out' =>
           IF comp.projectionComplete /\ comp.containerElement # NoElem
              /\ win.slot.id = comp.containerElement
           THEN "positioned" \in out' /\ dom'.posVars = comp.containerElement
           ELSE "positioned" \notin out']_vars

----------------------------------------------------------------------------
(* The end of a conversation and the durable flag *)

----------------------------------------------------------------------------
(* The visibility test of the presentation-mode decision *)

\* getComputedStyle(node).display is none: by its own style, by the hidden
\* attribute or by the slds-hide class
displayNone(p, i) == p.style[i] \in {"displayNone", "hiddenAttr", "sldsHide"}

\* getComputedStyle(node).visibility is hidden: visibility is inherited
visibilityHidden(p, i) ==
    \E j \in i..ChainLen : p.style[j] = "visibilityHidden"

\* element.getBoundingClientRect(): no box under a node that is not displayed
getBoundingClientRect(p) ==
    IF \E i \in 1..ChainLen : displayNone(p, i)
    THEN [width |-> 0, height |-> 0, top |-> 0, bottom |-> 0]
    ELSE [width |-> p.width, height |-> p.height, top |-> p.top,
          bottom |-> p.top + p.height]

\* the loop of the getter: from the element upwards while the current node
\* exists and is not document.body; parentElement is null at a shadow root
RECURSIVE noHiddenParent(_, _)
noHiddenParent(p, current) ==
    IF current > ChainLen \/ current = ChainLen THEN TRUE
    ELSE IF displayNone(p, current) \/ visibilityHidden(p, current)
             \/ p.style[current] = "opacity0" THEN FALSE
    ELSE IF p.style[current] \in {"hiddenAttr", "sldsHide"} THEN FALSE
    ELSE IF p.boundary = current THEN TRUE
    ELSE noHiddenParent(p, current + 1)

\* the getter without its walk up the parents
hasInlineContainerOnPageNoWalk(s) ==
    LET element == ResolveElement(s)
        rect == getBoundingClientRect(s.dom.page)
    IN  IF s.win.slot.id = "none" THEN FALSE
        ELSE IF element = NoElem THEN FALSE
        ELSE IF s.region[element].status # "rendered" THEN FALSE
        ELSE IF rect.width = 0 /\ rect.height = 0 THEN FALSE
        ELSE IF rect.bottom < 0 - 5000 \/ rect.top > 10000 THEN FALSE
        ELSE TRUE

\* get hasInlineContainer(), statement by statement, on the layout of the page
hasInlineContainerOnPage(s) ==
    LET element == ResolveElement(s)
        rect == getBoundingClientRect(s.dom.page)
    IN  IF s.win.slot.id = "none" THEN FALSE
        ELSE IF element = NoElem THEN FALSE
        ELSE IF s.region[element].status # "rendered" THEN FALSE
        ELSE IF rect.width = 0 /\ rect.height = 0 THEN FALSE
        ELSE IF ~noHiddenParent(s.dom.page, 1) THEN FALSE
        ELSE IF rect.bottom < 0 - 5000 \/ rect.top > 10000 THEN FALSE
        ELSE TRUE

\* a reader of the getter
InlineContainerCheck ==
    /\ out = {}
    /\ Step(Emit(Cur, IF hasInlineContainerOnPage(Cur) THEN "inline"
                      ELSE "floating"))

\* the page restyles a node
SetStyle ==
    \E i \in 1..ChainLen, v \in Styles :
        /\ dom.page.style[i] # v
        /\ Step([Cur EXCEPT !.dom.page.style[i] = v])

\* the page is composed with or without a shadow root above a node
SetBoundary ==
    \E b \in 0..(ChainLen - 1) :
        /\ dom.page.boundary # b
        /\ Step([Cur EXCEPT !.dom.page.boundary = b])

\* the layout gives the element another box
Resize ==
    \E w \in {0, 300}, h \in {0, 300} :
        /\ <<w, h>> # <<dom.page.width, dom.page.height>>
        /\ Step([Cur EXCEPT !.dom.page.width = w, !.dom.page.height = h])

\* the page scrolls the element far away or back
ScrollTo ==
    \E y \in {0 - 6000, 0, 10001} :
        /\ dom.page.top # y
        /\ Step([Cur EXCEPT !.dom.page.top = y])

NextLayout ==
    \/ RegionConnect \/ RegionRender \/ RegionDisconnect
    \/ SetStyle \/ SetBoundary \/ Resize \/ ScrollTo
    \/ InlineContainerCheck

SpecLayout == InitRegions /\ [][NextLayout]_vars

----------------------------------------------------------------------------
(* The order of configuration, initialization and listener registration *)

\* C30: whenever bootstrap.init is called, the configJson that is stored, if
\* it is non-empty and parses, has been applied; and activity listeners are
\* registered only in a step that has set _apiReady and in which the ready
\* event fired or utilAPI was present
C30_ConfigBeforeInitReadyBeforeListeners ==
    /\ [][("init" \in out' /\ comp.configJsonUsable) => comp.configApplied]_vars
    /\ [][win'.activityListeners > win.activityListeners
             => comp'.apiReady /\ (WidgetReady \/ win.utilAPI)]_vars

\* the orchestrator waited for the script, called bootstrap.init with its
\* configuration applied, the widget became ready, and the listeners are
\* registered
C30_Witness ==
    /\ comp.checkAttempts > 0 /\ comp.bootstrapInitialized
    /\ comp.configJsonUsable /\ comp.configApplied
    /\ win.widget = "ready" /\ comp.apiReady /\ win.activityListeners > 0

----------------------------------------------------------------------------
(* The element of the registered handle *)

\* C31: the element stored in the registered handle belongs to the region
\* instance whose id is in the handle
C31_ElementBelongsToHandle ==
    win.slot.element # NoElem => win.slot.element = win.slot.id

----------------------------------------------------------------------------
(* Navigation without a conversation *)

\* C32: a re-evaluation pass that runs while no conversation was ever started
\* (the widget holds no conversation, no message was counted, the iframe is
\* not maximized) leaves every welcome screen as it is, does not project the
\* widget and does not call launchChat
C32_NoProjectionWithoutConversation ==
    [][("navPass" \in out' /\ WidgetKey \notin store /\ comp.messageCount = 0
         /\ ~(dom.em /\ dom.iframe = "max"))
         => /\ "launchChat" \notin out' /\ "projected" \notin out'
            /\ \A r \in DOMAIN region : region'[r].welcome = region[r].welcome]_vars

----------------------------------------------------------------------------
(* Timers that outlive the orchestrator *)

\* C33: once disconnectedCallback has run, no task of the removed
\* orchestrator calls launchChat, sendTextMessage or bootstrap.init
C33_NoWidgetCallAfterDisconnect ==
    [][~comp.connected =>
          out' \cap {"init", "initThrew", "launchChat", "retryLaunch",
                     "sendPending", "sendThrew", "sendDirect"} = {}]_vars

----------------------------------------------------------------------------
(* The retries of _sendPendingMessage *)

\* a pending timer of _sendPendingMessage fires in the end
SpecSendFair == InitWatchers /\ [][NextWatchers]_vars /\ WF_vars(SendTimer)

\* C34: the retry chain of _sendPendingMessage ends: from some point on no
\* timer of _sendPendingMessage is pending
C34_SendRetriesStop ==
    <>[](timers["send"] = 0)

----------------------------------------------------------------------------
(* Chat starts of one page load with a search query: the search page of      *)
(* SpecSearch, followed up to the start of the greeting watcher              *)

NextSearchStart == NextSearch \/ WatcherStartTimer

SpecSearchStart == InitSearch /\ [][NextSearchStart]_vars

\* C35: a search query of one page load starts the chat at most once: once
\* launchChat has been invoked for the stored query, neither the region's
\* timer nor the orchestrator's invokes it again
C35_OneLaunchPerQuery ==
    [][hist.awaiting => "launchChat" \notin out']_vars

----------------------------------------------------------------------------
(* bootstrap.init under the timers of renderedCallback, the script's onload  *)
(* and the polling of _waitForBootstrap                                      *)

\* C36 as stated: bootstrap.init is invoked at most once while nothing resets
\* _bootstrapInitialized (SpecPoll has no re-initialization and no teardown):
\* the task that follows an invocation that threw does not invoke it again
C36_InitInvokedOnce ==
    [][("initThrew" \in out) => (out' \cap {"init", "initThrew"} = {})]_vars

\* C36 amended: bootstrap.init returns normally at most once until
\* _bootstrapInitialized is reset: the invocation that returns sets the flag,
\* and no timer, onload callback or poll tick invokes bootstrap.init while the
\* flag is set
C36_InitCompletesOnce ==
    [][/\ "init" \in out' => comp'.bootstrapInitialized
       /\ comp.bootstrapInitialized =>
              out' \cap {"init", "initThrew"} = {}]_vars

\* bootstrap.init has just returned while a timer of renderedCallback or of
\* _waitForBootstrap is still pending
C36_Witness ==
    /\ "init" \in out
    /\ comp.bootstrapInitialized
    /\ timers["render"] + timers["poll"] > 0

----------------------------------------------------------------------------
(* Several confirmation timers of the minimize watcher *)

\* C37: one minimize ends the chat once: the task that follows a run of
\* _endChatAndReset (no change of the iframe's class in between) does not run
\* _endChatAndReset again
C37_OneResetPerMinimize ==
    [][ "endChat" \in out => "endChat" \notin out' ]_vars

----------------------------------------------------------------------------
(* The timer of the navigation re-evaluation under popstate events, URL-poll *)
(* detections and timer firings                                              *)

\* C38: at most one timer of the navigation re-evaluation is pending, whether
\* _navigationCheckTimeout still holds its id or not, and
\* _navigationCheckCount never exceeds 4
C38_OneNavigationTimer ==
    /\ timers["navCheck"] + timers["navCheckLost"] <= 1
    /\ comp.navigationCheckCount <= MaxNavigationChecks

\* the URL poll has detected a change and restarted the re-evaluation: its
\* first pass has run and has scheduled the second
C38_Witness ==
    /\ "navPass" \in out /\ "delay300" \in out
    /\ comp.navigationCheckCount = 1
    /\ comp.lastUrl = win.url /\ win.url = "u2"
    /\ timers["navCheck"] = 1

----------------------------------------------------------------------------
(* _projectionComplete and what it stands for *)

\* C39: while _projectionComplete is true, _containerElement is not null and
\* #embedded-messaging carries the class projected-inline; and a task that
\* leaves the container reference cleared or the class removed leaves
\* _projectionComplete false
C39_CompleteMeansProjected ==
    /\ [](comp.projectionComplete =>
             comp.containerElement # NoElem /\ dom.em /\ dom.projected)
    /\ [][(\/ comp.containerElement # NoElem /\ comp'.containerElement = NoElem
           \/ dom.projected /\ ~dom'.projected)
              => ~comp'.projectionComplete]_vars

\* a navigation has just cleared a complete projection's container reference
\* and found no region to project to again
C39_Witness ==
    /\ "navPass" \in out /\ "projected" \notin out
    /\ comp.containerElement = NoElem
    /\ dom.projected
    /\ ~comp.projectionComplete

----------------------------------------------------------------------------
(* Specification of the storage-clearing operations: the storage holds any   *)
(* of the keys of StorageKeys, the page holds the widget of an earlier page  *)
(* or none, and the two operations run in any order while the page and the   *)
(* widget write keys                                                         *)

InitStorage ==
    /\ comp = InitComp
    /\ \/ dom = InitDom /\ win = InitWin
       \/ /\ dom \in {ExistingWidget(m) : m \in BOOLEAN}
          /\ win = [InitWin EXCEPT !.utilAPI = TRUE, !.widget = "ready"]
    /\ region = [r \in RegionIds |-> FreshRegion]
    /\ timers = [k \in TimerKinds |-> 0]
    /\ watchers = <<>>
    /\ store \in SUBSET StorageKeys
    /\ editor = InitEditor
    /\ hist = NoHist
    /\ out = {}

\* _clearEmbeddedServiceStoragePreInit
ClearStoragePreInit ==
    /\ comp.connected
    /\ Step(Emit(clearEmbeddedServiceStoragePreInit(Cur), "clearedPreInit"))

\* _clearEmbeddedServiceForNewConversation
ClearForNewConversation ==
    /\ comp.connected
    /\ Step(Emit(clearEmbeddedServiceForNewConversation(Cur), "clearedForNew"))

\* sessionStorage.setItem / localStorage.setItem by the page or the widget
StorageSetItem ==
    \E k \in StorageKeys :
        /\ k \notin store
        /\ Step([Cur EXCEPT !.store = @ \cup {k}])

NextStorage == ClearStoragePreInit \/ ClearForNewConversation \/ StorageSetItem

SpecStorage == InitStorage /\ [][NextStorage]_vars

\* C40: each of the two storage-clearing operations adds no key, keeps every
\* key that contains agentforce_ (the conversation-ended key among them), and
\* removes only keys that contain embedded, messaging or conversation, or,
\* for the pre-init clearing only, MIAW
C40_OwnKeysSurviveClearing ==
    [][(out' \cap {"clearedPreInit", "clearedForNew"} # {}) =>
          /\ store' \subseteq store
          /\ ConversationEndedKey \in store => ConversationEndedKey \in store'
          /\ \A k \in store : KeyIncludes(k, "agentforce_") => k \in store'
          /\ \A k \in store \ store' :
                 \/ \E p \in {"embedded", "messaging", "conversation"} :
                        KeyIncludes(k, p)
                 \/ "clearedPreInit" \in out' /\ KeyIncludes(k, "MIAW")]_vars

\* the pre-init clearing has run on a storage that held the widget's keys and
\* the component's own: the own keys are still there, the widget's are gone
C40_Witness ==
    /\ "clearedPreInit" \in out
    /\ {ConversationEndedKey, "agentforce_embedded_state",
        "agentforce_MIAW_cache", "theme", "miaw_token"} \subseteq store
    /\ store \cap {WidgetKey, "MIAW_token", "messaging_prefs", "conversation_id",
                   "agentforce-embedded"} = {}

=============================================================================
